---- MODULE Spec2Model ----
(***************************************************************************)
(* Model of the graphql-codegen-hasura-operations plugin                   *)
(* (src/unnamed/part_000): validate, plugin, printFragmentTypes,           *)
(* printCrudOperations, printOperation, printOperationContent and the      *)
(* recursive printOutputField.                                             *)
(*                                                                         *)
(* Text is modelled as the sequence of its lexical tokens: white space and *)
(* indentation (printIndent, getIndentSpaces) carry no token, and a string *)
(* is empty exactly when its token sequence is empty.                      *)
(*                                                                         *)
(* A name that the code derives with snake()/camel() is a sequence of      *)
(* atoms joined by "_", each atom a sequence of lower-case words written   *)
(* in camelCase: user_by_pk is <<<<"user">>,<<"by">>,<<"pk">>>> and        *)
(* userByPk is <<<<"user","by","pk">>>>.  Str renders a name as a string.  *)
(***************************************************************************)
EXTENDS Integers, Sequences, FiniteSets, TLC

VARIABLES
    schema,                 \* the schema type graph handed to the plugin
    maxDepth,               \* config.maxDepth
    tables,                 \* config.tables (a sequence of names)
    disableOperationTypes,  \* config.disableOperationTypes
    disablePagination,      \* config.disablePagination
    enableSubfieldArgs,     \* config.enableSubfieldArgs
    disableFragments,       \* config.disableFragments
    disableArgSuffixes,     \* config.disableArgSuffixes (a sequence of names)
    outputFile,             \* the output file that validate is handed
    allPlugins,             \* the plugins configured for that output file
    restConfig,             \* the keys of config that plugin does not bind
    pc,                     \* position of the run: validate, fragments, ...
    ti,                     \* index of the table the current loop is at
    fragmentTypes,          \* the fragment registry built so far
    queries,                \* the operation documents built so far
    output,                 \* the text returned by plugin (<<>> before)
    stack,                  \* printer activations waiting for a callee
    pending,                \* <<c>>: the printer call about to be entered
    returned                \* <<[call, result]>>: the call that just returned

vars ==
    <<schema, maxDepth, tables, disableOperationTypes, disablePagination,
      enableSubfieldArgs, disableFragments, disableArgSuffixes, outputFile,
      allPlugins, restConfig, pc, ti, fragmentTypes, queries, output, stack,
      pending, returned>>

configVars ==
    <<schema, maxDepth, tables, disableOperationTypes, disablePagination,
      enableSubfieldArgs, disableFragments, disableArgSuffixes, outputFile,
      allPlugins, restConfig>>

runVars == <<pc, ti, fragmentTypes, queries, output>>

printVars == <<stack, pending, returned>>

----------------------------------------------------------------------------
(* Bounds *)

MaxDepthBound == 2

----------------------------------------------------------------------------
(* Generic sequence helpers *)

RECURSIVE Flatten(_)
Flatten(ss) ==
    IF ss = <<>> THEN <<>> ELSE Head(ss) \o Flatten(Tail(ss))

RECURSIVE Join(_, _)
Join(ss, sep) ==
    IF ss = <<>> THEN <<>>
    ELSE IF Len(ss) = 1 THEN Head(ss)
    ELSE Head(ss) \o sep \o Join(Tail(ss), sep)

RECURSIVE JoinStr(_, _)
JoinStr(ss, sep) ==
    IF ss = <<>> THEN ""
    ELSE IF Len(ss) = 1 THEN Head(ss)
    ELSE Head(ss) \o sep \o JoinStr(Tail(ss), sep)

Range(s) == {s[i] : i \in 1..Len(s)}

Includes(s, x) == \E i \in 1..Len(s) : s[i] = x

----------------------------------------------------------------------------
(* Names and the casing helpers *)

Upper(w) ==
    CASE w = "user" -> "User"
      [] w = "post" -> "Post"
      [] w = "ghost" -> "Ghost"
      [] w = "role" -> "Role"
      [] w = "media" -> "Media"
      [] w = "node" -> "Node"
      [] w = "by" -> "By"
      [] w = "pk" -> "Pk"
      [] w = "aggregate" -> "Aggregate"
      [] w = "insert" -> "Insert"
      [] w = "one" -> "One"
      [] w = "update" -> "Update"
      [] w = "many" -> "Many"
      [] w = "delete" -> "Delete"
      [] w = "stream" -> "Stream"
      [] w = "bool" -> "Bool"
      [] w = "exp" -> "Exp"
      [] OTHER -> w

RECURSIVE UpperAll(_)
UpperAll(ws) ==
    IF ws = <<>> THEN "" ELSE Upper(Head(ws)) \o UpperAll(Tail(ws))

AtomStr(a) == IF a = <<>> THEN "" ELSE Head(a) \o UpperAll(Tail(a))

Str(n) == JoinStr([i \in 1..Len(n) |-> AtomStr(n[i])], "_")

Word(w) == << <<w>> >>

WordAtom(w) == <<w>>

snake(n) == [i \in 1..Len(Flatten(n)) |-> WordAtom(Flatten(n)[i])]

camel(n) == IF Flatten(n) = <<>> THEN <<>> ELSE <<Flatten(n)>>

capitalCase(n) == UpperAll(Flatten(n))

----------------------------------------------------------------------------
(* The schema type graph *)

Undefined == "undefined"

Named(n) == [w |-> <<>>, n |-> n]

NonNull(t) == [w |-> <<"NonNull">> \o t.w, n |-> t.n]

List(t) == [w |-> <<"List">> \o t.w, n |-> t.n]

isNonNullType(t) == t.w # <<>> /\ Head(t.w) = "NonNull"

isListType(t) == t.w # <<>> /\ Head(t.w) = "List"

ofType(t) == [t EXCEPT !.w = Tail(t.w)]

getNamedType(t) == Named(t.n)

\* the .name property: wrapper types have none
TypeName(t) == IF t.w = <<>> THEN t.n ELSE Undefined

RECURSIVE toString(_)
toString(t) ==
    IF t.w = <<>> THEN t.n
    ELSE IF Head(t.w) = "NonNull" THEN toString(ofType(t)) \o "!"
    ELSE "[" \o toString(ofType(t)) \o "]"

Arg(name, type) == [name |-> name, type |-> type]

Field(name, type, args) == [name |-> name, type |-> type, args |-> args]

KindOf(n) ==
    IF n \in DOMAIN schema.types THEN schema.types[n].kind ELSE "SCALAR"

isObjectType(t) == t.w = <<>> /\ KindOf(t.n) = "OBJECT"

isUnionType(t) == t.w = <<>> /\ KindOf(t.n) = "UNION"

isInterfaceType(t) == t.w = <<>> /\ KindOf(t.n) = "INTERFACE"

getFields(n) == schema.types[n].fields

getTypes(n) == schema.types[n].members

\* fields[name] of a root type's field map: <<f>> when present, <<>> when not
Lookup(fields, name) ==
    LET hits == {i \in 1..Len(fields) : fields[i].name = name}
    IN  IF hits = {} THEN <<>> ELSE <<fields[CHOOSE i \in hits : TRUE]>>

----------------------------------------------------------------------------
(* The printer: printOutputField and printOperationContent.                *)
(* A call is a record of the function's arguments.  Branch is the return   *)
(* statement the call reaches, SubCalls the recursive calls it makes (in   *)
(* order) and Combine the value it returns from their results.             *)

PrintOutput(query, args, isScalar) ==
    [query |-> query, args |-> args, isScalar |-> isScalar, err |-> FALSE]

EmptyOutput == PrintOutput(<<>>, <<>>, FALSE)

\* an exception leaving the call
Thrown == [query |-> <<>>, args |-> <<>>, isScalar |-> FALSE, err |-> TRUE]

FieldCall(field, o) ==
    [fn |-> "printOutputField", field |-> field, parents |-> o.parents,
     hideName |-> o.hideName, isSubfield |-> FALSE, maxDepth |-> o.maxDepth,
     fragmentTypes |-> o.fragmentTypes, disabledArgs |-> o.disabledArgs]

ContentCall(field, o) ==
    [fn |-> "printOperationContent", field |-> field, parents |-> o.parents,
     hideName |-> FALSE, isSubfield |-> o.isSubfield, maxDepth |-> o.maxDepth,
     fragmentTypes |-> o.fragmentTypes, disabledArgs |-> o.disabledArgs]

\* the properties of a field object that a parents entry is read for
AsParent(field) == [name |-> field.name, type |-> field.type]

ParentName(p) == p.name

ParentNames(parents) ==
    [i \in 1..Len(parents) |-> ParentName(parents[i])]

HasFragment(ft, n) == \E i \in 1..Len(ft) : ft[i].key = n

FragmentOf(ft, n) == ft[CHOOSE i \in 1..Len(ft) : ft[i].key = n]

InParents(c) ==
    \E i \in 1..Len(c.parents) :
        /\ c.parents[i].name = c.field.name
        /\ TypeName(c.parents[i].type) = TypeName(c.field.type)

DepthExceeded(c) == Len(c.parents) > c.maxDepth

ObjectDepthExceeded(c) == Len(c.parents) > c.maxDepth - 1

\* the return statement reached when the registry is not looked up
BranchWithoutFragments(c) ==
    IF c.fn = "printOperationContent" THEN "content"
    ELSE IF InParents(c) \/ DepthExceeded(c) THEN "elide"
    ELSE IF c.parents # <<>> /\ c.field.args # <<>> THEN "subfield"
    ELSE IF isListType(c.field.type) \/ isNonNullType(c.field.type)
         THEN "unwrap"
    ELSE IF isObjectType(c.field.type)
         THEN IF ObjectDepthExceeded(c) THEN "cut" ELSE "object"
    ELSE IF isUnionType(c.field.type) THEN "union"
    ELSE IF isInterfaceType(c.field.type) THEN "interface"
    ELSE "scalar"

\* the return statement reached when neither depth check is made
BranchUnbounded(c) ==
    IF c.fn = "printOperationContent" THEN "content"
    ELSE IF InParents(c) THEN "elide"
    ELSE IF c.parents # <<>> /\ c.field.args # <<>> THEN "subfield"
    ELSE IF isListType(c.field.type) \/ isNonNullType(c.field.type)
         THEN "unwrap"
    ELSE IF isObjectType(c.field.type)
         THEN IF HasFragment(c.fragmentTypes, c.field.type.n)
              THEN "spread"
              ELSE "object"
    ELSE IF isUnionType(c.field.type) THEN "union"
    ELSE IF isInterfaceType(c.field.type) THEN "interface"
    ELSE "scalar"

Branch(c) ==
    IF c.fn = "printOperationContent" THEN "content"
    ELSE IF InParents(c) \/ DepthExceeded(c) THEN "elide"
    ELSE IF c.parents # <<>> /\ c.field.args # <<>> THEN "subfield"
    ELSE IF isListType(c.field.type) \/ isNonNullType(c.field.type)
         THEN "unwrap"
    ELSE IF isObjectType(c.field.type)
         THEN IF ObjectDepthExceeded(c) THEN "cut"
              ELSE IF HasFragment(c.fragmentTypes, c.field.type.n)
                   THEN "spread"
                   ELSE "object"
    ELSE IF isUnionType(c.field.type) THEN "union"
    ELSE IF isInterfaceType(c.field.type) THEN "interface"
    ELSE "scalar"

ChildOpts(c, parents) ==
    [parents |-> parents, hideName |-> FALSE, maxDepth |-> c.maxDepth,
     fragmentTypes |-> c.fragmentTypes, disabledArgs |-> c.disabledArgs]

ObjectCalls(c) ==
    LET fs == getFields(c.field.type.n)
    IN  [i \in 1..Len(fs) |->
            FieldCall(fs[i],
                      ChildOpts(c, Append(c.parents, AsParent(c.field))))]

UnionCalls(c) ==
    LET tys == getTypes(c.field.type.n)
    IN  [i \in 1..Len(tys) |->
            FieldCall(Field(tys[i], Named(tys[i]), <<>>),
                      ChildOpts(c, Append(c.parents, AsParent(c.field))))]

InterfaceCalls(c) ==
    LET fs == getFields(c.field.type.n)
    IN  [i \in 1..Len(fs) |->
            FieldCall(fs[i],
                      ChildOpts(c, Append(c.parents, AsParent(fs[i]))))]

SubCalls(c) ==
    LET b == Branch(c)
    IN  CASE b = "content" ->
               <<FieldCall([c.field EXCEPT !.args = <<>>],
                           [parents |-> c.parents, hideName |-> TRUE,
                            maxDepth |-> c.maxDepth,
                            fragmentTypes |-> c.fragmentTypes,
                            disabledArgs |-> c.disabledArgs])>>
          [] b = "subfield" ->
               <<ContentCall(c.field,
                           [parents |-> c.parents, isSubfield |-> TRUE,
                            maxDepth |-> c.maxDepth,
                            fragmentTypes |-> c.fragmentTypes,
                            disabledArgs |-> c.disabledArgs])>>
          [] b = "unwrap" ->
               <<[c EXCEPT !.field.type = ofType(c.field.type)]>>
          [] b = "object" -> ObjectCalls(c)
          [] b = "union" -> UnionCalls(c)
          [] b = "interface" -> InterfaceCalls(c)
          [] OTHER -> <<>>

buildArgVariableName(c, v) ==
    IF ~c.isSubfield THEN v.name
    ELSE JoinStr(Append(ParentNames(c.parents), c.field.name), "_")
             \o "_" \o v.name

IsDisabledArg(c, arg) == Includes(c.disabledArgs, getNamedType(arg.type).n)

\* the filter callback without its sub-field condition
IsRequiredArgAnywhere(c, arg) ==
    IF isNonNullType(arg.type) THEN TRUE ELSE ~IsDisabledArg(c, arg)

IsRequiredArg(c, arg) ==
    IF isNonNullType(arg.type) THEN TRUE
    ELSE ~IsDisabledArg(c, arg) /\ (~c.isSubfield \/ enableSubfieldArgs)

requiredArgs(c) ==
    SelectSeq(c.field.args, LAMBDA arg : IsRequiredArg(c, arg))

\* the filter callback without its throw
NeverRequiredButDisabled(c) == FALSE

\* the filter callback throws on a non-nullable argument of a disabled type
RequiredButDisabled(c) ==
    \E i \in 1..Len(c.field.args) :
        /\ isNonNullType(c.field.args[i].type)
        /\ IsDisabledArg(c, c.field.args[i])

argString(c) ==
    Join([i \in 1..Len(requiredArgs(c)) |->
             <<requiredArgs(c)[i].name, ":",
               "$" \o buildArgVariableName(c, requiredArgs(c)[i])>>],
         <<",">>)

ContentResult(c, out) ==
    LET query ==
            IF out.query # <<>> \/ out.isScalar
            THEN <<c.field.name>>
                   \o (IF argString(c) # <<>>
                       THEN <<"(">> \o argString(c) \o <<")">>
                       ELSE <<>>)
                   \o out.query
            ELSE <<>>
        args ==
            IF query # <<>>
            THEN [i \in 1..Len(requiredArgs(c)) |->
                    IF ~c.isSubfield THEN requiredArgs(c)[i]
                    ELSE [requiredArgs(c)[i] EXCEPT
                            !.name = buildArgVariableName(c, requiredArgs(c)[i])]]
                 \o out.args
            ELSE <<>>
    IN  IF RequiredButDisabled(c) THEN Thrown
        ELSE PrintOutput(query, args, FALSE)

OwnName(c) == IF ~c.hideName THEN <<c.field.name>> ELSE <<>>

ResultQueries(rs) == [i \in 1..Len(rs) |-> rs[i].query]

ResultArgs(rs) == [i \in 1..Len(rs) |-> rs[i].args]

NonEmpty(q) == q # <<>>

\* the spread returned without the variables of the fragment
SpreadResultWithoutArgs(c) ==
    LET fragment == FragmentOf(c.fragmentTypes, c.field.type.n)
    IN  PrintOutput(OwnName(c) \o <<"{", "...", fragment.name, "}">>,
                    <<>>, FALSE)

SpreadResult(c) ==
    LET fragment == FragmentOf(c.fragmentTypes, c.field.type.n)
    IN  PrintOutput(OwnName(c) \o <<"{", "...", fragment.name, "}">>,
                    fragment.args, FALSE)

ObjectResult(c, rs) ==
    LET innerQuery == Flatten(SelectSeq(ResultQueries(rs), NonEmpty))
    IN  PrintOutput(IF innerQuery # <<>>
                    THEN OwnName(c) \o <<"{">> \o innerQuery \o <<"}">>
                    ELSE <<>>,
                    Flatten(ResultArgs(rs)), FALSE)

UnionResult(c, rs) ==
    PrintOutput(<<"{", "__typename">>
                  \o Flatten([i \in 1..Len(rs) |->
                                 <<"...", "on">> \o rs[i].query])
                  \o <<"}">>,
                Flatten(ResultArgs(rs)), FALSE)

InterfaceResult(c, rs) ==
    PrintOutput(<<"{", "__typename">>
                  \o Flatten(ResultQueries(rs))
                  \o <<"}">>,
                Flatten(ResultArgs(rs)), FALSE)

ScalarResult(c) == PrintOutput(OwnName(c), <<>>, TRUE)

Combine(c, rs) ==
    LET b == Branch(c)
    IN  IF \E i \in 1..Len(rs) : rs[i].err THEN Thrown
        ELSE CASE b = "content" -> ContentResult(c, rs[1])
               [] b = "subfield" -> rs[1]
               [] b = "unwrap" -> rs[1]
               [] b = "spread" -> SpreadResult(c)
               [] b = "object" -> ObjectResult(c, rs)
               [] b = "union" -> UnionResult(c, rs)
               [] b = "interface" -> InterfaceResult(c, rs)
               [] b = "scalar" -> ScalarResult(c)
               [] OTHER -> EmptyOutput

\* (bound once, as values: the call, and its callees' results)
RECURSIVE Eval(_)
RECURSIVE EvalFrom(_, _)
EvalFrom(cs, i) ==
    IF i > Len(cs) THEN <<>> ELSE <<Eval(cs[i])>> \o EvalFrom(cs, i + 1)

Eval(call) ==
    CHOOSE r \in
        UNION {{Combine(c, rs) : rs \in {EvalFrom(SubCalls(c), 1)}} :
                  c \in {call}} : TRUE

printOutputField(field, o) == Eval(FieldCall(field, o))

printOperationContent(field, o) == Eval(ContentCall(field, o))

----------------------------------------------------------------------------
(* Operation documents: printOperationArgs, printOperation and the         *)
(* per-model body of printCrudOperations.                                  *)

queryOperationNamePrefix == "Get"

mutationOperationNamePrefix == ""

subscriptionOperationNamePrefix == "Subscribe"

paginationSuffix == "Pagination"

printOperationArgs(args) ==
    IF args = <<>> THEN <<>>
    ELSE <<"(">>
           \o Join([i \in 1..Len(args) |->
                       <<"$" \o args[i].name, ":", toString(args[i].type)>>],
                   <<",">>)
           \o <<")">>

buildModelTypeNameFromSuffixes(modelName, suffixes) ==
    Flatten([i \in 1..Len(suffixes) |->
                <<Str(modelName \o suffixes[i]),
                  Str(camel(modelName \o suffixes[i]))>>])

\* a printed document, or the exception that printing it raised
Document(operationType, fieldName, pagination, text) ==
    [err |-> FALSE, operationType |-> operationType, field |-> fieldName,
     pagination |-> pagination, text |-> text]

Failure ==
    [err |-> TRUE, operationType |-> "", field |-> "", pagination |-> FALSE,
     text |-> <<>>]

RootOpts(md, ft, disabledArgs) ==
    [isSubfield |-> FALSE, parents |-> <<>>, maxDepth |-> md,
     fragmentTypes |-> ft, disabledArgs |-> disabledArgs]

OperationText(operationType, r, prefix, op) ==
    IF op.err THEN Failure
    ELSE Document(operationType, r.field.name, FALSE,
             <<operationType, prefix \o capitalCase(r.nm)>>
               \o printOperationArgs(op.args)
               \o <<"{">> \o op.query \o <<"}">>)

\* r: a resolved root field with the candidate name it was found under
printOperation(operationType, r, prefix, md, ft, disabledArgs) ==
    CHOOSE d \in
        {OperationText(operationType, r, prefix, op) :
            op \in {printOperationContent(r.field,
                        RootOpts(md, ft, disabledArgs))}} : TRUE

PaginationText(r, aggregate, getContent) ==
    IF getContent.err THEN Failure
    ELSE Document("query", r.field.name, TRUE,
             <<"query",
               queryOperationNamePrefix \o capitalCase(r.nm)
                   \o paginationSuffix>>
               \o printOperationArgs(getContent.args)
               \o <<"{">> \o getContent.query
               \o <<aggregate.field.name, "(", "where", ":", "$where", ")",
                    "{", "aggregate", "{", "count", "}", "}">>
               \o <<"}">>)

printPagination(r, aggregate, md, ft, disabledArgs) ==
    CHOOSE d \in
        {PaginationText(r, aggregate, getContent) :
            getContent \in {printOperationContent(r.field,
                                RootOpts(md, ft, disabledArgs))}} : TRUE

\* fields[a] || fields[b], with the candidate name that resolved
Resolve(fields, a, b) ==
    IF Lookup(fields, Str(a)) # <<>>
    THEN <<[field |-> Lookup(fields, Str(a))[1], nm |-> a]>>
    ELSE IF Lookup(fields, Str(b)) # <<>>
         THEN <<[field |-> Lookup(fields, Str(b))[1], nm |-> b]>>
         ELSE <<>>

\* the kind check when no kind is ever taken as disabled
EveryOperationEnabled(operationType) == TRUE

OperationEnabled(operationType) ==
    disableOperationTypes = <<>>
        \/ ~Includes(disableOperationTypes, operationType)

fieldName(table) == snake(table)

fieldByPkName(table) == snake(fieldName(table) \o <<<<"by">>, <<"pk">>>>)

aggregateFieldName(table) == fieldName(table) \o <<<<"aggregate">>>>

insertFieldName(table) == <<<<"insert">>>> \o fieldName(table)

insertOneFieldName(table) ==
    <<<<"insert">>>> \o fieldName(table) \o <<<<"one">>>>

updateFieldName(table) == <<<<"update">>>> \o fieldName(table)

updateByPkFieldName(table) ==
    <<<<"update">>>> \o fieldName(table) \o <<<<"by">>, <<"pk">>>>

updateManyFieldName(table) ==
    <<<<"update">>>> \o fieldName(table) \o <<<<"many">>>>

deleteFieldName(table) == <<<<"delete">>>> \o fieldName(table)

deleteByPkFieldName(table) ==
    <<<<"delete">>>> \o fieldName(table) \o <<<<"by">>, <<"pk">>>>

streamFieldName(table) == fieldName(table) \o <<<<"stream">>>>

\* a root field that printCrudOperations found and the options it prints
\* it with; aggregate is <<>> except for the paginated query
Request(operationType, r, aggregate, prefix, md, disabledArgs) ==
    [operationType |-> operationType, r |-> r, aggregate |-> aggregate,
     prefix |-> prefix, maxDepth |-> md, disabledArgs |-> disabledArgs]

QueryRequests(table, md, disabledArgs) ==
    LET fieldGet ==
            Resolve(schema.query, fieldName(table), camel(table))
        fieldGetByPk ==
            Resolve(schema.query, fieldByPkName(table),
                    camel(fieldByPkName(table)))
        fieldAggregate ==
            Resolve(schema.query, aggregateFieldName(table),
                    camel(aggregateFieldName(table)))
    IN  (IF ~disablePagination /\ fieldAggregate # <<>> /\ fieldGet # <<>>
         THEN <<Request("query", fieldGet[1], fieldAggregate,
                        queryOperationNamePrefix, md, disabledArgs)>>
         ELSE <<>>)
        \o (IF fieldGet # <<>>
            THEN <<Request("query", fieldGet[1], <<>>,
                           queryOperationNamePrefix, md, disabledArgs)>>
            ELSE <<>>)
        \o (IF fieldGetByPk # <<>>
            THEN <<Request("query", fieldGetByPk[1], <<>>,
                           queryOperationNamePrefix, md, disabledArgs)>>
            ELSE <<>>)

\* the subscription block with the model's disabled set for every field
SubscriptionRequestsFiltered(table, md, disabledArgs) ==
    LET fieldGet ==
            Resolve(schema.subscription, fieldName(table), camel(table))
        fieldGetByPk ==
            Resolve(schema.subscription, fieldByPkName(table),
                    camel(fieldByPkName(table)))
        fieldStream ==
            Resolve(schema.subscription, streamFieldName(table),
                    camel(streamFieldName(table)))
    IN  (IF fieldGet # <<>>
         THEN <<Request("subscription", fieldGet[1], <<>>,
                        subscriptionOperationNamePrefix, md, disabledArgs)>>
         ELSE <<>>)
        \o (IF fieldGetByPk # <<>>
            THEN <<Request("subscription", fieldGetByPk[1], <<>>,
                           subscriptionOperationNamePrefix, md,
                           disabledArgs)>>
            ELSE <<>>)
        \o (IF fieldStream # <<>>
            THEN <<Request("subscription", fieldStream[1], <<>>,
                           subscriptionOperationNamePrefix, md,
                           disabledArgs)>>
            ELSE <<>>)

SubscriptionRequests(table, md, disabledArgs) ==
    LET fieldGet ==
            Resolve(schema.subscription, fieldName(table), camel(table))
        fieldGetByPk ==
            Resolve(schema.subscription, fieldByPkName(table),
                    camel(fieldByPkName(table)))
        fieldStream ==
            Resolve(schema.subscription, streamFieldName(table),
                    camel(streamFieldName(table)))
    IN  (IF fieldGet # <<>>
         THEN <<Request("subscription", fieldGet[1], <<>>,
                        subscriptionOperationNamePrefix, md, <<>>)>>
         ELSE <<>>)
        \o (IF fieldGetByPk # <<>>
            THEN <<Request("subscription", fieldGetByPk[1], <<>>,
                           subscriptionOperationNamePrefix, md,
                           disabledArgs)>>
            ELSE <<>>)
        \o (IF fieldStream # <<>>
            THEN <<Request("subscription", fieldStream[1], <<>>,
                           subscriptionOperationNamePrefix, md,
                           disabledArgs)>>
            ELSE <<>>)

mutationManyNames(table) ==
    <<insertFieldName(table), camel(insertFieldName(table)),
      updateFieldName(table), camel(updateFieldName(table)),
      updateManyFieldName(table), camel(updateManyFieldName(table)),
      deleteFieldName(table), camel(deleteFieldName(table))>>

mutationNames(table) ==
    <<insertFieldName(table), camel(insertFieldName(table)),
      insertOneFieldName(table), camel(insertOneFieldName(table)),
      updateFieldName(table), camel(updateFieldName(table)),
      updateManyFieldName(table), camel(updateManyFieldName(table)),
      updateByPkFieldName(table), camel(updateByPkFieldName(table)),
      deleteFieldName(table), camel(deleteFieldName(table)),
      deleteByPkFieldName(table), camel(deleteByPkFieldName(table))>>

\* every mutation printed with the configured maxDepth
MutationDepthConfigured(table, name, md) == md

MutationDepth(table, name, md) ==
    IF \E i \in 1..Len(mutationManyNames(table)) :
           Str(mutationManyNames(table)[i]) = name
    THEN md + 1 ELSE md

MutationRequests(table, md, disabledArgs) ==
    LET names == mutationNames(table)
        found ==
            Flatten([i \in 1..Len(names) |->
                        Resolve(schema.mutation, names[i], names[i])])
    IN  [i \in 1..Len(found) |->
            Request("mutation", found[i], <<>>,
                    mutationOperationNamePrefix,
                    MutationDepth(table, found[i].field.name, md),
                    disabledArgs)]

\* the flatMap callback with the subscription block ahead of the query block
ModelRequestsSubscriptionsFirst(table, md) ==
    LET disabledArgs ==
            buildModelTypeNameFromSuffixes(table, disableArgSuffixes)
    IN  (IF OperationEnabled("subscription")
         THEN SubscriptionRequests(table, md, disabledArgs) ELSE <<>>)
        \o (IF OperationEnabled("query")
            THEN QueryRequests(table, md, disabledArgs) ELSE <<>>)
        \o (IF OperationEnabled("mutation")
            THEN MutationRequests(table, md, disabledArgs) ELSE <<>>)

\* the root fields one model's flatMap callback prints, in order
ModelRequests(table, md) ==
    LET disabledArgs ==
            buildModelTypeNameFromSuffixes(table, disableArgSuffixes)
    IN  (IF OperationEnabled("query")
         THEN QueryRequests(table, md, disabledArgs) ELSE <<>>)
        \o (IF OperationEnabled("subscription")
            THEN SubscriptionRequests(table, md, disabledArgs) ELSE <<>>)
        \o (IF OperationEnabled("mutation")
            THEN MutationRequests(table, md, disabledArgs) ELSE <<>>)

PrintRequest(q, ft) ==
    IF q.aggregate # <<>>
    THEN printPagination(q.r, q.aggregate[1], q.maxDepth, ft, q.disabledArgs)
    ELSE printOperation(q.operationType, q.r, q.prefix, q.maxDepth, ft,
                        q.disabledArgs)

\* the documents one model's flatMap callback builds, in order
ModelOperations(table, md, ft) ==
    LET qs == ModelRequests(table, md)
    IN  [i \in 1..Len(qs) |-> PrintRequest(qs[i], ft)]

AnyFailure(docs) == \E i \in 1..Len(docs) : docs[i].err

\* the check of queries.length left out
NoOperationsAccepted(docs) == FALSE

\* "table ... doesn't exist, or maybe the role doesn't have any permission"
NoOperations(docs) == Len(docs) = 0

----------------------------------------------------------------------------
(* The fragment registry: one iteration of printFragmentTypes' reduce.     *)

\* the reduce callback without the spread of acc
PutFragmentAlone(acc, entry) == <<entry>>

PutFragment(acc, entry) ==
    IF HasFragment(acc, entry.key)
    THEN [i \in 1..Len(acc) |->
             IF acc[i].key = entry.key THEN entry ELSE acc[i]]
    ELSE Append(acc, entry)

\* the call with a registry that already holds the fragment of user
FragmentOutputWithRegistry(table, md) ==
    printOutputField(
        Field(capitalCase(table), Named(Str(table)), <<>>),
        [hideName |-> TRUE, maxDepth |-> md, parents |-> <<>>,
         fragmentTypes |->
             <<[key |-> "user", name |-> "User", content |-> <<>>,
                args |-> <<>>]>>,
         disabledArgs |->
             buildModelTypeNameFromSuffixes(table, disableArgSuffixes)])

FragmentOutput(table, md) ==
    printOutputField(
        Field(capitalCase(table), Named(Str(table)), <<>>),
        [hideName |-> TRUE, maxDepth |-> md, parents |-> <<>>,
         fragmentTypes |-> <<>>,
         disabledArgs |->
             buildModelTypeNameFromSuffixes(table, disableArgSuffixes)])

FragmentEntry(table, out) ==
    [key |-> Str(table), name |-> capitalCase(table),
     content |-> <<"fragment", capitalCase(table), "on", Str(table)>>
                   \o out.query,
     args |-> out.args]

FragmentPut(acc, table, out) ==
    IF out.err THEN [err |-> TRUE, map |-> acc]
    ELSE [err |-> FALSE, map |-> PutFragment(acc, FragmentEntry(table, out))]

\* the reduce callback without the check of the type
FragmentStepUnchecked(acc, table, md) ==
    CHOOSE s \in
        {FragmentPut(acc, table, out) :
            out \in {FragmentOutput(table, md)}} : TRUE

\* one iteration of the reduce over tables; err: printOutputField threw
FragmentStep(acc, table, md) ==
    IF ~isObjectType(Named(Str(table)))
    THEN [err |-> FALSE, map |-> acc]
    ELSE CHOOSE s \in
             {FragmentPut(acc, table, out) :
                 out \in {FragmentOutput(table, md)}} : TRUE

RECURSIVE FragmentReduce(_, _, _, _)
FragmentReduce(acc, tbls, i, md) ==
    IF i > Len(tbls) THEN [err |-> FALSE, map |-> acc]
    ELSE CHOOSE r \in
             {IF s.err THEN s ELSE FragmentReduce(s.map, tbls, i + 1, md) :
                 s \in {FragmentStep(acc, tbls[i], md)}} : TRUE

printFragmentTypes(tbls, md) == FragmentReduce(<<>>, tbls, 1, md)

FragmentContents(ft) == [i \in 1..Len(ft) |-> ft[i].content]

DocumentTexts(docs) == [i \in 1..Len(docs) |-> docs[i].text]

----------------------------------------------------------------------------
(* The inputs: schemas and configurations the run is started with.         *)

IntType == Named("Int")

WhereArgs(kind, n) ==
    CASE kind = "none" -> <<>>
      [] kind = "nullable" -> <<Arg("where", Named(n \o "_bool_exp"))>>
      [] kind = "required" ->
           <<Arg("where", NonNull(Named(n \o "_bool_exp")))>>

ObjectType(fields) == [kind |-> "OBJECT", fields |-> fields, members |-> <<>>]

\* type user { id: Int!, friend(where): friendType, rank(by: Int): Int,
\*             friend_rank(by: Int): Int }
\* type post { title: String, author: authorType }    (title when postTitle)
\* union media = post | user
\* interface node { id: Int!, owner: user }
\* type user_mutation_response { affected_rows: Int!, returning: [user!]! }
\* type user_role { id: Int!, owner(where: user_bool_exp): user }
\* (Roots: the root fields; the preset "kinds" has Query.media: media and
\* Query.node: node)
Types(friendType, friendArgs, authorType, postTitle) ==
    ("user" :> ObjectType(
        <<Field("id", NonNull(IntType), <<>>),
          Field("friend", friendType, WhereArgs(friendArgs, friendType.n)),
          Field("rank", IntType, <<Arg("by", IntType)>>),
          Field("friend_rank", IntType, <<Arg("by", IntType)>>)>>))
    @@ ("post" :> ObjectType(
        (IF postTitle THEN <<Field("title", Named("String"), <<>>)>>
         ELSE <<>>)
        \o <<Field("author", authorType, <<>>)>>))
    @@ ("media" :>
        [kind |-> "UNION", fields |-> <<>>, members |-> <<"post", "user">>])
    @@ ("node" :>
        [kind |-> "INTERFACE",
         fields |-> <<Field("id", NonNull(IntType), <<>>),
                      Field("owner", Named("user"), <<>>)>>,
         members |-> <<>>])
    @@ ("user_mutation_response" :> ObjectType(
        <<Field("affected_rows", NonNull(IntType), <<>>),
          Field("returning", NonNull(List(NonNull(Named("user")))), <<>>)>>))
    @@ ("user_role" :> ObjectType(
        <<Field("id", NonNull(IntType), <<>>),
          Field("owner", Named("user"), WhereArgs("nullable", "user"))>>))

Rows(n) == NonNull(List(NonNull(Named(n))))

GetUser(where) ==
    Field("user", Rows("user"),
          WhereArgs(where, "user") \o <<Arg("limit", IntType)>>)

GetPost == Field("post", Rows("post"), WhereArgs("nullable", "post"))

ById == <<Arg("id", NonNull(IntType))>>

Aggregate(name, n) ==
    Field(name, NonNull(Named(n \o "_aggregate")), WhereArgs("nullable", n))

\* the root types a schema can have: getQueryType(), getMutationType() and
\* getSubscriptionType() return undefined for a root type the schema lacks
AllRoots == {"query", "mutation", "subscription"}

\* the field maps of the root types (<<>> for a type the schema lacks) and
\* the root types the schema has
Roots(preset) ==
    CASE preset = "hasura" ->
           [query |-> <<GetUser("nullable"),
                        Field("user_by_pk", Named("user"), ById),
                        Aggregate("user_aggregate", "user"),
                        GetPost,
                        Aggregate("post_aggregate", "post")>>,
            mutation |->
                <<Field("insert_user", Named("user_mutation_response"),
                        <<Arg("objects",
                              NonNull(List(NonNull(Named("user_insert_input"))))),
                          Arg("on_conflict", Named("user_on_conflict"))>>),
                  Field("insert_user_one", Named("user"),
                        <<Arg("object", NonNull(Named("user_insert_input")))>>),
                  Field("delete_user", Named("user_mutation_response"),
                        WhereArgs("required", "user"))>>,
            subscription |->
                <<GetUser("nullable"),
                  Field("user_by_pk", Named("user"),
                        ById \o WhereArgs("nullable", "user")),
                  Field("user_stream", Rows("user"),
                        <<Arg("batch_size", NonNull(IntType))>>
                          \o WhereArgs("nullable", "user"))>>,
            roots |-> AllRoots]
      [] preset = "camel" ->
           [query |-> <<GetUser("nullable"),
                        Field("userByPk", Named("user"), ById),
                        Aggregate("userAggregate", "user")>>,
            mutation |-> <<Field("deleteUserByPk", Named("user"), ById)>>,
            subscription |-> <<>>,
            roots |-> AllRoots]
      [] preset = "plain" ->
           [query |-> <<GetUser("none"),
                        Aggregate("user_aggregate", "user"),
                        GetPost>>,
            mutation |-> <<>>,
            subscription |-> <<GetUser("required")>>,
            roots |-> AllRoots]
      [] preset = "aggregate" ->
           [query |-> <<Aggregate("user_aggregate", "user"), GetPost>>,
            mutation |-> <<>>,
            subscription |-> <<>>,
            roots |-> AllRoots]
      [] preset = "mutation" ->
           [query |-> <<>>,
            mutation |->
                <<Field("update_user", Named("user_mutation_response"),
                        WhereArgs("required", "user"))>>,
            subscription |-> <<>>,
            roots |-> AllRoots]
      [] preset = "query" ->
           [query |-> <<GetUser("nullable"),
                        Field("user_by_pk", Named("user"), ById),
                        Aggregate("user_aggregate", "user")>>,
            mutation |-> <<>>,
            subscription |-> <<>>,
            roots |-> {"query"}]
      [] preset = "bare" ->
           [query |-> <<GetUser("nullable"),
                        Field("user_by_pk", Named("user"), ById),
                        Aggregate("user_aggregate", "user")>>,
            mutation |-> <<>>,
            subscription |-> <<>>,
            roots |-> AllRoots]
      [] preset = "spelling" ->
           [query |-> <<GetUser("nullable"),
                        Field("userRole", Rows("user_role"), <<>>),
                        Field("userRoleByPk", Named("user_role"), ById),
                        Field("user_role_by_pk", Named("user_role"), ById)>>,
            mutation |->
                <<Field("deleteUserRoleByPk", Named("user_role"), ById),
                  Field("delete_user_role_by_pk", Named("user_role"), ById),
                  Field("deleteUserRole", Named("user_mutation_response"),
                        WhereArgs("nullable", "user_role"))>>,
            subscription |->
                <<Field("userRole", Rows("user_role"), <<>>),
                  Field("user_role", Rows("user_role"), <<>>),
                  Field("userRoleStream", Rows("user_role"), <<>>)>>,
            roots |-> AllRoots]
      [] preset = "kinds" ->
           [query |-> <<GetUser("nullable"),
                        Field("media", Named("media"), <<>>),
                        Field("node", Named("node"), <<>>)>>,
            mutation |-> <<>>,
            subscription |-> <<>>,
            roots |-> AllRoots]
      [] preset = "readonly" ->
           [query |-> <<GetUser("nullable"),
                        Field("user_by_pk", Named("user"), ById),
                        Aggregate("user_aggregate", "user")>>,
            mutation |-> <<>>,
            subscription |-> <<GetUser("nullable")>>,
            roots |-> {"query", "subscription"}]

Schema(friendType, friendArgs, authorType, postTitle, preset) ==
    [types |-> Types(friendType, friendArgs, authorType, postTitle),
     query |-> Roots(preset).query,
     mutation |-> Roots(preset).mutation,
     subscription |-> Roots(preset).subscription,
     roots |-> Roots(preset).roots]

FriendTypes ==
    {IntType, Named("user"), Rows("user"), Rows("post"), Named("media"),
     Named("node")}

AuthorTypes == {Named("user"), Named("media")}

Presets == {"hasura", "camel", "plain", "aggregate", "mutation"}

User == Word("user")

Post == Word("post")

Ghost == Word("ghost")

Media == Word("media")

Node == Word("node")

BoolExp == <<<<"bool">>, <<"exp">>>>

MaxDepths == (0 - 1)..MaxDepthBound

\* the schemas and configurations of a whole run
RunSchemas ==
    {Schema(ft, "nullable", Named("user"), pt, pr) :
        ft \in {Named("user"), Named("media")},
        pt \in BOOLEAN, pr \in Presets}

RunTables == {<<User>>, <<User, Post>>, <<Post, Ghost>>}

\* schemas exposing Query.user, Query.user_by_pk and Query.user_aggregate:
\* without a Mutation and a Subscription root type, without a Mutation
\* root type, and with root types that expose nothing of user
RootlessSchemas ==
    {Schema(Named("user"), "nullable", Named("user"), TRUE, pr) :
        pr \in {"query", "readonly", "bare"}}

RootlessTables == {<<>>, <<User>>}

\* a schema that exposes fields of user_role in both spellings
SpellingSchemas ==
    {Schema(Named("user"), "nullable", Named("user"), TRUE, "spelling")}

\* the model user_role as configured in either spelling
SpellingTables ==
    {<< <<WordAtom("user"), WordAtom("role")>> >>,
     << << <<"user", "role">> >> >>}

\* a schema with root fields of a union and of an interface type
KindSchemas ==
    {Schema(Named("user"), "nullable", Named("user"), TRUE, "kinds")}

\* the models media and node, which name a union and an interface
KindTables == {<<User, Media>>, <<Node, User>>}

\* the model userRole, which names no type of the schema, ahead of user
PrintSpellingTables == << << <<"user", "role">> >>, User>>

RunDisabled ==
    {<<>>, <<"query">>, <<"mutation">>, <<"subscription", "mutation">>,
     <<"query", "fragment">>}

\* the output file with the plugins configured for it
RunOutputs ==
    {[file |-> "operations.graphql", plugins |-> <<"hasura-graphql">>],
     [file |-> "operations.ts", plugins |-> <<"hasura-graphql">>],
     [file |-> "operations.ts",
      plugins |-> <<"hasura-graphql", "typescript-operations">>]}

RootlessOutputs ==
    {[file |-> "operations.graphql", plugins |-> <<"hasura-graphql">>],
     [file |-> ".graphql", plugins |-> <<"hasura-graphql">>],
     [file |-> "operations.graphql",
      plugins |-> <<"hasura-graphql", "typescript-operations">>]}

\* keys of the config object outside those that plugin destructures
\* (246-261): lists of field names, prefixes and suffixes to leave out
RestConfigs ==
    {[names |-> {"title"}, prefixes |-> {"friend"}, suffixes |-> {"rank"}]}

\* the schemas of the printer's runs: every shape of the user/post graph
PrintSchemas ==
    {Schema(ft, fa, at, TRUE, "hasura") :
        ft \in FriendTypes, fa \in {"nullable", "required"},
        at \in AuthorTypes}

----------------------------------------------------------------------------
(* validate, and plugin step by step: the registry, one model at a time;   *)
(* the operations, one model at a time; the join.                          *)

Init ==
    /\ \/ /\ schema \in RunSchemas
          /\ tables \in RunTables
          /\ \E o \in RunOutputs :
                 outputFile = o.file /\ allPlugins = o.plugins
       \/ /\ schema \in RootlessSchemas
          /\ tables \in RootlessTables
          /\ \E o \in RootlessOutputs :
                 outputFile = o.file /\ allPlugins = o.plugins
       \/ /\ schema \in SpellingSchemas
          /\ tables \in SpellingTables
          /\ outputFile = "operations.graphql"
          /\ allPlugins = <<"hasura-graphql">>
       \/ /\ schema \in KindSchemas
          /\ tables \in KindTables
          /\ outputFile = "operations.graphql"
          /\ allPlugins = <<"hasura-graphql">>
    /\ maxDepth \in MaxDepths
    /\ disableOperationTypes \in RunDisabled
    /\ disablePagination \in BOOLEAN
    /\ enableSubfieldArgs \in BOOLEAN
    /\ disableFragments \in BOOLEAN
    /\ disableArgSuffixes \in {<<>>, <<BoolExp>>}
    /\ restConfig \in RestConfigs
    /\ pc = "validate"
    /\ ti = 1
    /\ fragmentTypes = <<>>
    /\ queries = <<>>
    /\ output = <<>>
    /\ stack = <<>>
    /\ pending = <<>>
    /\ returned = <<>>

OperationTypes == {"query", "mutation", "subscription"}

\* path.extname of the output files of the runs
extname(file) ==
    CASE file = "operations.graphql" -> ".graphql"
      [] file = "operations.ts" -> ".ts"
      [] file = ".graphql" -> ""

\* the check of allPlugins.length left out
singlePluginAlways == TRUE

singlePlugin == Len(allPlugins) = 1

Invalid ==
    \/ (singlePlugin /\ extname(outputFile) # ".graphql")
    \/ (disableOperationTypes # <<>>
          /\ \E i \in 1..Len(disableOperationTypes) :
                 disableOperationTypes[i] \notin OperationTypes)
    \/ (maxDepth # 0 /\ maxDepth <= 0)

Validate ==
    /\ pc = "validate"
    /\ pc' = IF Invalid THEN "rejected" ELSE "fragments"
    /\ UNCHANGED <<configVars, ti, fragmentTypes, queries, output, printVars>>

PrintFragmentType ==
    /\ pc = "fragments"
    /\ ~disableFragments
    /\ ti <= Len(tables)
    /\ LET step == FragmentStep(fragmentTypes, tables[ti], maxDepth)
       IN  /\ fragmentTypes' = step.map
           /\ pc' = IF step.err THEN "failed" ELSE pc
    /\ ti' = ti + 1
    /\ UNCHANGED <<configVars, queries, output, printVars>>

\* schema.getQueryType().getFields() and the like at the head of
\* printCrudOperations: a TypeError when the schema lacks a root type
RootFieldsRead == \A kind \in OperationTypes : kind \in schema.roots

\* the registry is complete and printCrudOperations is entered
FragmentTypesDone ==
    /\ pc = "fragments"
    /\ disableFragments \/ ti > Len(tables)
    /\ pc' = IF RootFieldsRead THEN "operations" ELSE "crashed"
    /\ ti' = 1
    /\ UNCHANGED <<configVars, fragmentTypes, queries, output, printVars>>

PrintCrudOperation ==
    /\ pc = "operations"
    /\ ti <= Len(tables)
    /\ LET docs == ModelOperations(tables[ti], maxDepth, fragmentTypes)
       IN  IF AnyFailure(docs) \/ NoOperations(docs)
           THEN /\ pc' = "failed"
                /\ queries' = queries
           ELSE /\ pc' = pc
                /\ queries' = queries \o docs
    /\ ti' = ti + 1
    /\ UNCHANGED <<configVars, fragmentTypes, output, printVars>>

Return ==
    /\ pc = "operations"
    /\ ti > Len(tables)
    /\ output' = SelectSeq(FragmentContents(fragmentTypes)
                             \o DocumentTexts(queries), NonEmpty)
    /\ pc' = "done"
    /\ UNCHANGED <<configVars, ti, fragmentTypes, queries, printVars>>

----------------------------------------------------------------------------
(* The printer step by step: one action for each branch that a call of     *)
(* printOutputField or printOperationContent takes, and one for a callee   *)
(* returning to the activation that waits for it.                          *)

FragmentCalls(tbls, md) ==
    Flatten([i \in 1..Len(tbls) |->
        IF ~isObjectType(Named(Str(tbls[i]))) THEN <<>>
        ELSE <<FieldCall(
                 Field(capitalCase(tbls[i]), Named(Str(tbls[i])), <<>>),
                 [hideName |-> TRUE, maxDepth |-> md, parents |-> <<>>,
                  fragmentTypes |-> <<>>,
                  disabledArgs |->
                      buildModelTypeNameFromSuffixes(tbls[i],
                                                     disableArgSuffixes)])>>])

RequestCall(q, ft) ==
    ContentCall(q.r.field, RootOpts(q.maxDepth, ft, q.disabledArgs))

RECURSIVE OperationCalls(_, _, _, _)
OperationCalls(tbls, i, md, ft) ==
    IF i > Len(tbls) THEN <<>>
    ELSE CHOOSE cs \in
             {IF qs = <<>> THEN <<>>
              ELSE [k \in 1..Len(qs) |-> RequestCall(qs[k], ft)]
                       \o OperationCalls(tbls, i + 1, md, ft) :
                 qs \in {ModelRequests(tbls[i], md)}} : TRUE

\* the calls of a sequence that are made: all up to the first that throws
Made(calls) ==
    UNION {UNION {{cs[i] : i \in {k \in 1..Len(cs) :
                                     \A j \in thrown : k <= j}} :
                     thrown \in {{j \in 1..Len(cs) : Eval(cs[j]).err}}} :
              cs \in {calls}}

\* the top-level printer calls of one run of plugin
RootCalls ==
    UNION {Made((IF disableFragments THEN <<>>
                 ELSE FragmentCalls(tables, maxDepth))
                \o OperationCalls(tables, 1, maxDepth, r.map)) :
              r \in {IF disableFragments THEN [err |-> FALSE, map |-> <<>>]
                     ELSE printFragmentTypes(tables, maxDepth)}}

InitPrint ==
    /\ \/ /\ schema \in PrintSchemas
          /\ tables = <<User, Post>>
       \/ /\ schema \in SpellingSchemas
          /\ tables = PrintSpellingTables
       \/ /\ schema \in KindSchemas
          /\ tables \in KindTables
    /\ maxDepth \in 0..MaxDepthBound
    /\ disableOperationTypes = <<>>
    /\ disablePagination = FALSE
    /\ enableSubfieldArgs \in BOOLEAN
    /\ disableFragments \in BOOLEAN
    /\ disableArgSuffixes \in {<<>>, <<BoolExp>>}
    /\ outputFile = "operations.graphql"
    /\ allPlugins = <<"hasura-graphql">>
    /\ restConfig \in RestConfigs
    /\ pc = "print"
    /\ ti = 1
    /\ fragmentTypes = <<>>
    /\ queries = <<>>
    /\ output = <<>>
    /\ stack = <<>>
    /\ \E c \in RootCalls : pending = <<c>>
    /\ returned = <<>>

Activation(c) == [call |-> c, acc |-> <<>>]

\* a call is entered: a call without callees returns at once, any other
\* waits on the stack for its first callee
Enter ==
    /\ IF SubCalls(pending[1]) = <<>>
       THEN /\ returned' = <<[call |-> pending[1],
                              result |-> Combine(pending[1], <<>>)]>>
            /\ pending' = <<>>
            /\ stack' = stack
       ELSE /\ stack' = <<Activation(pending[1])>> \o stack
            /\ pending' = <<SubCalls(pending[1])[1]>>
            /\ returned' = <<>>
    /\ UNCHANGED <<configVars, runVars>>

Entering(b) == pc = "print" /\ pending # <<>> /\ Branch(pending[1]) = b

OperationContent ==
    /\ Entering("content")
    /\ Enter

Elide ==
    /\ Entering("elide")
    /\ Enter

Subfield ==
    /\ Entering("subfield")
    /\ Enter

Unwrap ==
    /\ Entering("unwrap")
    /\ Enter

ObjectCut ==
    /\ Entering("cut")
    /\ Enter

FragmentSpread ==
    /\ Entering("spread")
    /\ Enter

ObjectFields ==
    /\ Entering("object")
    /\ Enter

UnionTypes ==
    /\ Entering("union")
    /\ Enter

InterfaceFields ==
    /\ Entering("interface")
    /\ Enter

ScalarLeaf ==
    /\ Entering("scalar")
    /\ Enter

\* the callee's result reaches the waiting activation: an exception unwinds
\* it, otherwise it calls its next callee or returns itself
Resume ==
    /\ pc = "print"
    /\ returned # <<>>
    /\ stack # <<>>
    /\ LET f == Head(stack)
           acc == Append(f.acc, returned[1].result)
           subs == SubCalls(f.call)
       IN  IF returned[1].result.err
           THEN /\ stack' = Tail(stack)
                /\ pending' = <<>>
                /\ returned' = <<[call |-> f.call, result |-> Thrown]>>
           ELSE IF Len(acc) < Len(subs)
                THEN /\ stack' = <<[f EXCEPT !.acc = acc]>> \o Tail(stack)
                     /\ pending' = <<subs[Len(acc) + 1]>>
                     /\ returned' = <<>>
                ELSE /\ stack' = Tail(stack)
                     /\ pending' = <<>>
                     /\ returned' = <<[call |-> f.call,
                                       result |-> Combine(f.call, acc)]>>
    /\ UNCHANGED <<configVars, runVars>>

NextPrint ==
    \/ OperationContent
    \/ Elide
    \/ Subfield
    \/ Unwrap
    \/ ObjectCut
    \/ FragmentSpread
    \/ ObjectFields
    \/ UnionTypes
    \/ InterfaceFields
    \/ ScalarLeaf
    \/ Resume

SpecPrint == InitPrint /\ [][NextPrint]_vars

\* the step-by-step printer returns what the recursive definition returns
PrintAgrees ==
    returned # <<>> => returned[1].result = Eval(returned[1].call)

Next ==
    \/ Validate
    \/ PrintFragmentType
    \/ FragmentTypesDone
    \/ PrintCrudOperation
    \/ Return

Spec == Init /\ [][Next]_vars

----------------------------------------------------------------------------
(* Properties of the printer's recursion (SpecPrint).                      *)

\* the calls that are active, outermost first
ActiveCalls ==
    [i \in 1..Len(stack) |-> stack[Len(stack) + 1 - i].call] \o pending

SameField(a, b) == b.field.name = a.field.name /\ b.field.type.n = a.field.type.n

\* b is a's call on the same field with one List/NonNull wrapper removed
StripsWrapper(a, b) ==
    /\ a.fn = "printOutputField" /\ b.fn = "printOutputField"
    /\ SameField(a, b)
    /\ b.parents = a.parents
    /\ Len(b.field.type.w) + 1 = Len(a.field.type.w)

\* a is printOperationContent, entered for a field with arguments or as the
\* root of an operation, and b is its call with the arguments cleared
ClearsArgs(a, b) ==
    /\ a.fn = "printOperationContent" /\ b.fn = "printOutputField"
    /\ SameField(a, b)
    /\ b.field.type = a.field.type
    /\ b.parents = a.parents
    /\ b.field.args = <<>>
    /\ a.field.args # <<>> \/ a.parents = <<>>

\* printOutputField hands a sub-field with arguments to printOperationContent
HandsOver(a, b) ==
    /\ a.fn = "printOutputField" /\ b.fn = "printOperationContent"
    /\ b.field = a.field
    /\ b.parents = a.parents
    /\ a.field.args # <<>>

\* b is a call on a child with the ancestor chain of a extended by one entry
ExtendsChain(a, b) ==
    /\ a.fn = "printOutputField" /\ b.fn = "printOutputField"
    /\ Len(b.parents) = Len(a.parents) + 1
    /\ SubSeq(b.parents, 1, Len(a.parents)) = a.parents

\* what is left of a call's budget: chain entries, then wrappers, then the
\* pending hand-over and clearing of arguments
Budget(c) == c.maxDepth + 1 - Len(c.parents)

ArgSteps(c) ==
    IF c.fn = "printOperationContent" THEN 1
    ELSE IF c.field.args # <<>> THEN 2 ELSE 0

Decreases(a, b) ==
    \/ Budget(b) < Budget(a)
    \/ Budget(b) = Budget(a) /\ Len(b.field.type.w) < Len(a.field.type.w)
    \/ /\ Budget(b) = Budget(a)
       /\ Len(b.field.type.w) = Len(a.field.type.w)
       /\ ArgSteps(b) < ArgSteps(a)

\* C1: the recursion between printOutputField and printOperationContent
\* terminates: every call made by an active call strips one wrapper, clears
\* the field's arguments (printOutputField handing a field with arguments
\* to printOperationContent, which calls back with none) or extends the
\* ancestor chain by one entry; each such call lowers a budget that never
\* goes below zero, because no call is made with a chain longer than
\* maxDepth + 1.
C1_RecursionBounded ==
    /\ \A i \in 1..Len(ActiveCalls) :
           /\ Len(ActiveCalls[i].parents) <= ActiveCalls[i].maxDepth + 1
           /\ Budget(ActiveCalls[i]) >= 0
    /\ \A i \in 1..(Len(ActiveCalls) - 1) :
           /\ \/ StripsWrapper(ActiveCalls[i], ActiveCalls[i + 1])
              \/ ClearsArgs(ActiveCalls[i], ActiveCalls[i + 1])
              \/ HandsOver(ActiveCalls[i], ActiveCalls[i + 1])
              \/ ExtendsChain(ActiveCalls[i], ActiveCalls[i + 1])
           /\ Decreases(ActiveCalls[i], ActiveCalls[i + 1])

\* a call at the longest chain, on a type that is already an ancestor's
C1_Witness ==
    /\ pending # <<>>
    /\ maxDepth >= 1
    /\ Len(pending[1].parents) = pending[1].maxDepth + 1
    /\ \E i \in 1..Len(pending[1].parents) :
           pending[1].parents[i].type.n = pending[1].field.type.n
    /\ Len(stack) >= 3

\* the deepest level of braces in a text
RECURSIVE MaxNest(_, _, _)
MaxNest(text, i, depth) ==
    IF i > Len(text) THEN depth
    ELSE IF text[i] = "{"
         THEN LET rest == MaxNest(text, i + 1, depth + 1)
              IN  IF rest > depth + 1 THEN rest ELSE depth + 1
    ELSE IF text[i] = "}" THEN
              LET rest == MaxNest(text, i + 1, depth - 1)
              IN  IF rest > depth THEN rest ELSE depth
    ELSE MaxNest(text, i + 1, depth)

\* C2: printOutputField called with an empty chain and maxDepth >= 1 emits
\* no selection nested more than maxDepth selection-set levels below its
\* field.
C2_NestingWithinMaxDepth ==
    \A i \in 1..Len(returned) :
        (/\ returned[i].call.fn = "printOutputField"
         /\ returned[i].call.parents = <<>>
         /\ returned[i].call.maxDepth >= 1
         /\ ~returned[i].result.err)
        => MaxNest(returned[i].result.query, 1, 0) <= returned[i].call.maxDepth

\* the field has the name and the named type of an entry of its chain
Reappears(c) ==
    \E i \in 1..Len(c.parents) :
        /\ c.parents[i].name = c.field.name
        /\ c.parents[i].type.n = c.field.type.n

\* C3: a call of printOutputField on a field that has the name and the
\* named type of an entry of its ancestor chain returns the empty result.
C3_CycleGuardElides ==
    \A i \in 1..Len(returned) :
        (returned[i].call.fn = "printOutputField" /\ Reappears(returned[i].call))
        => returned[i].result = EmptyOutput

\* such a call returns the empty result unless it throws
CycleGuardElidesOrThrows ==
    \A i \in 1..Len(returned) :
        (returned[i].call.fn = "printOutputField" /\ Reappears(returned[i].call))
        => returned[i].result.err \/ returned[i].result = EmptyOutput

\* the classification rule: non-nullable, or nullable of a type that is not
\* disabled and on a field that is not a sub-field unless sub-field
\* arguments are enabled
Classified(c, arg) ==
    \/ arg.type.w # <<>> /\ Head(arg.type.w) = "NonNull"
    \/ /\ \A k \in 1..Len(c.disabledArgs) : c.disabledArgs[k] # arg.type.n
       /\ ~c.isSubfield \/ enableSubfieldArgs

Kept(c) == SelectSeq(c.field.args, LAMBDA arg : Classified(c, arg))

\* the field with the argument list of the kept arguments
KeptHead(c) ==
    <<c.field.name>>
      \o (IF Kept(c) = <<>> THEN <<>>
          ELSE <<"(">>
                 \o Join([i \in 1..Len(Kept(c)) |->
                             <<Kept(c)[i].name, ":",
                               "$" \o buildArgVariableName(c, Kept(c)[i])>>],
                         <<",">>)
                 \o <<")">>)

KeptVariables(c) ==
    [i \in 1..Len(Kept(c)) |->
        [name |-> buildArgVariableName(c, Kept(c)[i]),
         type |-> Kept(c)[i].type]]

ClassifiedAsRuled(c, r) ==
    /\ Len(r.query) >= Len(KeptHead(c))
    /\ SubSeq(r.query, 1, Len(KeptHead(c))) = KeptHead(c)
    /\ Len(r.query) > Len(KeptHead(c)) => r.query[Len(KeptHead(c)) + 1] = "{"
    /\ r.args = KeptVariables(c) \o Eval(SubCalls(c)[1]).args

\* C7: a field that printOperationContent prints carries, in its argument
\* list and in the variables it returns, exactly the arguments that are
\* non-nullable or that are nullable, of a type not in the disabled set and
\* on a field that is not a sub-field unless enableSubfieldArgs is set;
\* every other argument is in neither.
C7_ArgumentsClassified ==
    \A i \in 1..Len(returned) :
        (/\ returned[i].call.fn = "printOperationContent"
         /\ ~returned[i].result.err
         /\ returned[i].result.query # <<>>)
        => ClassifiedAsRuled(returned[i].call, returned[i].result)

\* a printed sub-field that keeps its non-nullable argument and loses a
\* nullable one, and a printed root field that loses a disabled one
C7_Witness ==
    /\ returned # <<>>
    /\ returned[1].call.fn = "printOperationContent"
    /\ ~returned[1].result.err
    /\ returned[1].result.query # <<>>
    /\ Kept(returned[1].call) # <<>>
    /\ Len(Kept(returned[1].call)) < Len(returned[1].call.field.args)
    /\ \/ returned[1].call.isSubfield /\ ~enableSubfieldArgs
       \/ returned[1].call.disabledArgs # <<>>

\* the argument occurrences whose variables a call returns: the position
\* (ancestor path, field, argument) with the variable it is given; the
\* variables of a fragment spread are positions of their own
RECURSIVE Occurrences(_)
OccurrencesOf(c, r) ==
    IF r.err \/ r.args = <<>> THEN {}
    ELSE (IF c.fn = "printOperationContent"
          THEN {[path |-> ParentNames(c.parents),
                 field |-> c.field.name, arg |-> a.name,
                 var |-> buildArgVariableName(c, a)] :
                   a \in {requiredArgs(c)[k] : k \in 1..Len(requiredArgs(c))}}
          ELSE {})
         \cup (IF Branch(c) = "spread"
               THEN {[path |-> Append(ParentNames(c.parents), c.field.name),
                      field |-> "..." \o r.args[k].name,
                      arg |-> r.args[k].name, var |-> r.args[k].name] :
                        k \in 1..Len(r.args)}
               ELSE {})
         \cup UNION {Occurrences(SubCalls(c)[k]) : k \in 1..Len(SubCalls(c))}

Occurrences(call) ==
    UNION {UNION {{o : o \in OccurrencesOf(c, r)} : r \in {Eval(c)}} :
              c \in {call}}

\* the variable name of the naming rule
RuledName(o) ==
    IF o.path = <<>> THEN o.arg
    ELSE JoinStr(o.path \o <<o.field, o.arg>>, "_")

IsOperation(c) ==
    c.fn = "printOperationContent" /\ c.parents = <<>> /\ ~c.isSubfield

\* C9: within one operation, an argument of the top-level field is given
\* its own name, an argument of a sub-field the ancestor names, the field
\* name and the argument name joined by underscores, and two occurrences
\* at different positions never get the same variable name.
C9_VariableNamesInjective ==
    (returned # <<>> /\ stack = <<>> /\ IsOperation(returned[1].call)
        /\ ~returned[1].result.err)
    => \A o1 \in Occurrences(returned[1].call) :
           /\ o1.field # "..." \o o1.var => o1.var = RuledName(o1)
           /\ \E k \in 1..Len(returned[1].result.args) :
                  returned[1].result.args[k].name = o1.var
           /\ \A o2 \in Occurrences(returned[1].call) :
                  o1.var = o2.var => o1 = o2

----------------------------------------------------------------------------
(* Properties of a run of the plugin (Spec).                               *)

Strs(names) == {Str(names[k]) : k \in 1..Len(names)}

HasField(fields, names) == \E k \in 1..Len(fields) : fields[k].name \in names

FieldsNamed(fields, names) ==
    {fields[k] : k \in {j \in 1..Len(fields) : fields[j].name \in names}}

KindDisabled(operationType) ==
    \E k \in 1..Len(disableOperationTypes) :
        disableOperationTypes[k] = operationType

GetNames(table) == {Str(fieldName(table)), Str(camel(table))}

ByPkNames(table) ==
    {Str(fieldByPkName(table)), Str(camel(fieldByPkName(table)))}

AggregateNames(table) ==
    {Str(aggregateFieldName(table)), Str(camel(aggregateFieldName(table)))}

StreamNames(table) ==
    {Str(streamFieldName(table)), Str(camel(streamFieldName(table)))}

\* some root field of a kind that is not disabled resolves for the model
Produces(table) ==
    \/ /\ ~KindDisabled("query")
       /\ HasField(schema.query, GetNames(table) \cup ByPkNames(table))
    \/ /\ ~KindDisabled("subscription")
       /\ HasField(schema.subscription,
                   GetNames(table) \cup ByPkNames(table)
                       \cup StreamNames(table))
    \/ /\ ~KindDisabled("mutation")
       /\ HasField(schema.mutation, Strs(mutationNames(table)))

\* C4: when some model produces no operation of any kind that is not
\* disabled, printCrudOperations throws at that model and the plugin
\* returns no text: the run never gets past the model, never completes,
\* and what was built for the other models is not emitted.
C4_NoOperationsAborts ==
    \A i \in 1..Len(tables) :
        ~Produces(tables[i])
        => /\ pc # "done"
           /\ output = <<>>
           /\ pc = "operations" => ti <= i

\* the run failed at a model without operations, after fragments and
\* operations were built for another model
C4_Witness ==
    /\ pc = "failed"
    /\ maxDepth >= 1
    /\ ti = 3
    /\ Produces(tables[1])
    /\ ~Produces(tables[2])
    /\ queries # <<>>
    /\ fragmentTypes # <<>>
    /\ output = <<>>

PaginationNames(table) ==
    {queryOperationNamePrefix \o capitalCase(fieldName(table))
         \o paginationSuffix,
     queryOperationNamePrefix \o capitalCase(camel(table))
         \o paginationSuffix}

IsPagination(text, table) ==
    Len(text) >= 2 /\ text[1] = "query" /\ text[2] \in PaginationNames(table)

PaginationEmitted(table) ==
    \E k \in 1..Len(output) : IsPagination(output[k], table)

PaginationResolves(table) ==
    /\ HasField(schema.query, GetNames(table))
    /\ HasField(schema.query, AggregateNames(table))

\* C5 as stated, for a run with a positive maxDepth: a paginated query is
\* emitted for a model exactly when get and aggregate resolve in Query and
\* pagination is not disabled.
C5_PaginationIffResolves ==
    (pc = "done" /\ maxDepth >= 1)
    => \A i \in 1..Len(tables) :
           PaginationEmitted(tables[i])
           <=> (PaginationResolves(tables[i]) /\ ~disablePagination)

\* C5: for every model of a run that completes, a paginated query document
\* is emitted exactly when the query kind is not disabled, the get field
\* and the aggregate field both resolve in the Query root type, and
\* pagination is not disabled.
C5_PaginationIffEnabled ==
    pc = "done"
    => \A i \in 1..Len(tables) :
           PaginationEmitted(tables[i])
           <=> (/\ ~KindDisabled("query")
                /\ PaginationResolves(tables[i])
                /\ ~disablePagination)

\* a completed run that emits the paginated query of one model and none
\* for another, whose aggregate field does not resolve
C5_Witness ==
    /\ pc = "done"
    /\ maxDepth >= 1
    /\ \E i \in 1..Len(tables) :
           PaginationResolves(tables[i]) /\ PaginationEmitted(tables[i])
    /\ \E i \in 1..Len(tables) :
           ~PaginationResolves(tables[i]) /\ ~PaginationEmitted(tables[i])

FirstBrace(text) == CHOOSE i \in 1..Len(text) :
                        text[i] = "{" /\ \A j \in 1..(i - 1) : text[j] # "{"

CountBlocks(text) ==
    Cardinality({i \in 1..(Len(text) - 3) :
                    SubSeq(text, i, i + 3) = <<"aggregate", "{", "count", "}">>})

\* $where: Type in the variable header
DeclaresWhere(text) ==
    \E i \in 1..(FirstBrace(text) - 1) : text[i] = "$where" /\ text[i + 1] = ":"

\* where: $where in the argument list of the base selection, which is the
\* first selection of the body
BasePassesWhere(text) ==
    /\ Len(text) > FirstBrace(text) + 2
    /\ text[FirstBrace(text) + 2] = "("
    /\ \E i \in (FirstBrace(text) + 3)..(Len(text) - 2) :
           /\ SubSeq(text, i, i + 2) = <<"where", ":", "$where">>
           /\ \A j \in (FirstBrace(text) + 3)..i : text[j] # ")"

\* the get field of the model declares an argument named where
GetDeclaresWhere(table) ==
    \A f \in FieldsNamed(schema.query, GetNames(table)) :
        \E k \in 1..Len(f.args) : f.args[k].name = "where"

\* C6: every paginated query emitted by a run with a positive maxDepth, for
\* a model whose get field declares a where argument, has exactly one
\* aggregate { count } block, and the $where that block passes to the
\* aggregate field is the variable the base selection passes as where,
\* declared in the header.
C6_PaginationSharesWhere ==
    (pc = "done" /\ maxDepth >= 1)
    => \A k \in 1..Len(output) :
           (\E i \in 1..Len(tables) :
                IsPagination(output[k], tables[i])
                    /\ GetDeclaresWhere(tables[i]))
           => /\ CountBlocks(output[k]) = 1
              /\ DeclaresWhere(output[k])
              /\ BasePassesWhere(output[k])

DisabledNames(table) ==
    UNION {{Str(table \o disableArgSuffixes[k]),
            Str(camel(table \o disableArgSuffixes[k]))} :
              k \in 1..Len(disableArgSuffixes)}

\* the field has a non-nullable argument of a type the suffixes name
RequiresDisabled(f, table) ==
    \E k \in 1..Len(f.args) :
        /\ f.args[k].type.w # <<>>
        /\ Head(f.args[k].type.w) = "NonNull"
        /\ f.args[k].type.n \in DisabledNames(table)

\* the conventional root fields of a model, whatever their kind
ModelFields(table) ==
    FieldsNamed(schema.query, GetNames(table) \cup ByPkNames(table))
        \cup FieldsNamed(schema.subscription,
                         GetNames(table) \cup ByPkNames(table)
                             \cup StreamNames(table))
        \cup FieldsNamed(schema.mutation, Strs(mutationNames(table)))

\* those that are printed with the model's disabled set: every one of a
\* kind that is not disabled, but for the plain get subscription
FilteredFields(table) ==
    (IF KindDisabled("query") THEN {}
     ELSE FieldsNamed(schema.query, GetNames(table) \cup ByPkNames(table)))
        \cup (IF KindDisabled("subscription") THEN {}
              ELSE FieldsNamed(schema.subscription,
                               ByPkNames(table) \cup StreamNames(table)))
        \cup (IF KindDisabled("mutation") THEN {}
              ELSE FieldsNamed(schema.mutation, Strs(mutationNames(table))))

\* C8 as stated, for a run with a positive maxDepth: a suffix naming the
\* type of a non-nullable argument of a field of a configured model makes
\* the generation fail at that model.
C8_RequiredDisabledFails ==
    \A i \in 1..Len(tables) :
        (/\ maxDepth >= 1
         /\ \E f \in ModelFields(tables[i]) : RequiresDisabled(f, tables[i]))
        => /\ pc # "done"
           /\ pc = "operations" => ti <= i

RootFields(operationType) ==
    CASE operationType = "query" -> schema.query
      [] operationType = "mutation" -> schema.mutation
      [] operationType = "subscription" -> schema.subscription

\* the document's body starts with its root field
PrintsField(d) ==
    /\ Len(d.text) > FirstBrace(d.text)
    /\ d.text[FirstBrace(d.text) + 1] = d.field

\* a document that prints its root field declares and passes every
\* non-nullable argument of the field
KeepsRequired(d) ==
    \A f \in FieldsNamed(RootFields(d.operationType), {d.field}) :
        \A k \in 1..Len(f.args) :
            (/\ PrintsField(d)
             /\ f.args[k].type.w # <<>>
             /\ Head(f.args[k].type.w) = "NonNull")
            => /\ \E j \in 1..(Len(d.text) - 2) :
                      SubSeq(d.text, j, j + 2) =
                          <<"$" \o f.args[k].name, ":",
                            toString(f.args[k].type)>>
               /\ \E j \in 1..(Len(d.text) - 2) :
                      SubSeq(d.text, j, j + 2) =
                          <<f.args[k].name, ":", "$" \o f.args[k].name>>

\* C8: when a suffix names the type of a non-nullable argument of a root
\* field that is printed with the model's disabled set (a field of a kind
\* that is not disabled, other than the plain get subscription, which is
\* printed with an empty disabled set), the generation fails at that
\* model; and no emitted operation prints its root field without
\* declaring and passing every non-nullable argument of the field.
C8_FilteredRequiredDisabledFails ==
    /\ \A i \in 1..Len(tables) :
           (\E f \in FilteredFields(tables[i]) :
                RequiresDisabled(f, tables[i]))
           => /\ pc # "done"
              /\ pc = "operations" => ti <= i
    /\ pc = "done" => \A k \in 1..Len(queries) : KeepsRequired(queries[k])

\* the run failed at the first model, which has operations and a printed
\* root field with a non-nullable argument of a disabled type
C8_Witness ==
    /\ pc = "failed"
    /\ maxDepth >= 1
    /\ ti = 2
    /\ disableFragments
    /\ Produces(tables[1])
    /\ \E f \in FilteredFields(tables[1]) : RequiresDisabled(f, tables[1])

EmptySelection(text) ==
    \E i \in 1..(Len(text) - 1) : text[i] = "{" /\ text[i + 1] = "}"

\* a fragment definition without a body
BodylessFragment(text) == text[1] = "fragment" /\ "{" \notin Range(text)

\* an inline fragment ... on without its type and body
BodylessInlineFragment(text) ==
    \E i \in 1..(Len(text) - 1) :
        /\ text[i] = "..."
        /\ text[i + 1] = "on"
        /\ i + 3 > Len(text) \/ text[i + 3] # "{"

\* C10: no text emitted by a run with a positive maxDepth has an empty
\* selection set: every pair of braces
\* (operation body, object field body, fragment body, union inline
\* fragment) encloses a selection, and no fragment or inline fragment is
\* left without its body.
C10_NoEmptySelectionSet ==
    (pc = "done" /\ maxDepth >= 1)
    => \A k \in 1..Len(output) :
           /\ ~EmptySelection(output[k])
           /\ ~BodylessFragment(output[k])
           /\ ~BodylessInlineFragment(output[k])

----------------------------------------------------------------------------
(* Properties of the phases of a run (Spec).                               *)

\* the registry holds the fragment of every model that is an object type
RegistryComplete ==
    \A i \in 1..Len(tables) :
        isObjectType(Named(Str(tables[i])))
        => HasFragment(fragmentTypes, Str(tables[i]))

\* C11: generation runs in two strict phases.  When fragments are
\* generated, the registry holds an entry for every configured model that
\* is an object type before the first operation of any model is printed
\* and for as long as operations are printed: the operations of an early
\* model are printed with the fragments of the later models.
C11_RegistryBeforeOperations ==
    (~disableFragments /\ (pc \in {"operations", "done"} \/ queries # <<>>))
    => RegistryComplete

\* the first model's operations are about to be printed and the registry
\* holds the fragment of the second model
C11_Witness ==
    /\ pc = "operations"
    /\ ti = 1
    /\ queries = <<>>
    /\ ~disableFragments
    /\ maxDepth >= 1
    /\ Len(tables) = 2
    /\ Len(fragmentTypes) = 2
    /\ HasFragment(fragmentTypes, Str(tables[2]))

----------------------------------------------------------------------------
(* Properties of validate (Spec).                                          *)

\* validate has not returned, or has thrown
NotValidated == pc \in {"validate", "rejected"}

\* C12: validate rejects every configuration whose maxDepth is not
\* positive, 0 included: no run with maxDepth <= 0 gets past validate.
C12_NonPositiveMaxDepthRejected == maxDepth <= 0 => NotValidated

\* C13: with an empty list of tables neither validate nor plugin completes:
\* the run does not get past validate, and plugin returns no text.
C13_EmptyTablesFails == tables = <<>> => (NotValidated /\ pc # "done")

\* what validate checks besides the extension
KindsAndDepthValid ==
    /\ \A i \in 1..Len(disableOperationTypes) :
           disableOperationTypes[i] \in {"query", "mutation", "subscription"}
    /\ maxDepth >= 0

\* C14: validate throws when this plugin is the only plugin of the output
\* file and the extension of the file is not .graphql; with other plugins
\* configured alongside it validate does not throw for the extension: a
\* configuration that is valid otherwise is not rejected.
C14_ExtensionCheckedWhenAlone ==
    /\ (Len(allPlugins) = 1 /\ extname(outputFile) # ".graphql")
       => NotValidated
    /\ (Len(allPlugins) > 1 /\ KindsAndDepthValid) => pc # "rejected"

\* validate has thrown for the extension alone
C14_Witness ==
    /\ pc = "rejected"
    /\ Len(allPlugins) = 1
    /\ extname(outputFile) = ".ts"
    /\ KindsAndDepthValid

----------------------------------------------------------------------------
(* Properties of the returned text (Spec).                                 *)

\* the operation names a prefix gives the two spellings of a field name
NamesOf(prefix, name) ==
    {prefix \o capitalCase(name), prefix \o capitalCase(camel(name))}

MutationOperationNames(table) ==
    UNION {NamesOf(mutationOperationNamePrefix, mutationNames(table)[k]) :
              k \in 1..Len(mutationNames(table))}

\* the place of a document among the documents of a model: paginated query,
\* get query, get-by-pk query, the three subscriptions, the mutations;
\* 0 for a text that is no document of the model
DocRank(text, table) ==
    LET keyword == text[1]
        name == text[2]
    IN  IF keyword = "query" /\ name \in PaginationNames(table) THEN 1
        ELSE IF keyword = "query"
                  /\ name \in NamesOf(queryOperationNamePrefix,
                                      fieldName(table)) THEN 2
        ELSE IF keyword = "query"
                  /\ name \in NamesOf(queryOperationNamePrefix,
                                      fieldByPkName(table)) THEN 3
        ELSE IF keyword = "subscription"
                  /\ name \in NamesOf(subscriptionOperationNamePrefix,
                                      fieldName(table)) THEN 4
        ELSE IF keyword = "subscription"
                  /\ name \in NamesOf(subscriptionOperationNamePrefix,
                                      fieldByPkName(table)) THEN 5
        ELSE IF keyword = "subscription"
                  /\ name \in NamesOf(subscriptionOperationNamePrefix,
                                      streamFieldName(table)) THEN 6
        ELSE IF keyword = "mutation"
                  /\ name \in MutationOperationNames(table) THEN 7
        ELSE 0

IsFragment(text) == text[1] = "fragment"

IsDocument(text) == \E i \in 1..Len(tables) : DocRank(text, tables[i]) > 0

\* the model a document belongs to, by its place in tables
ModelOf(text) ==
    CHOOSE i \in 1..Len(tables) : DocRank(text, tables[i]) > 0

\* text a may come before text b
InOrder(a, b) ==
    \/ IsFragment(a)
    \/ /\ IsDocument(a)
       /\ IsDocument(b)
       /\ \/ ModelOf(a) < ModelOf(b)
          \/ /\ ModelOf(a) = ModelOf(b)
             /\ DocRank(a, tables[ModelOf(a)]) <= DocRank(b, tables[ModelOf(b)])

\* C15: the returned text lists every fragment definition before every
\* operation; the operations come model by model in the order of tables,
\* and within a model in the order paginated query, get query, get-by-pk
\* query, subscriptions (get, get-by-pk, stream), mutations.
C15_FragmentsThenOperationsInOrder ==
    pc = "done"
    => /\ \A k \in 1..Len(output) :
              IsFragment(output[k]) \/ IsDocument(output[k])
       /\ \A k \in 1..Len(output) : \A l \in (k + 1)..Len(output) :
              InOrder(output[k], output[l])

\* the returned text has fragments, queries of two models, a paginated
\* query, a subscription and a mutation
C15_Witness ==
    /\ pc = "done"
    /\ maxDepth >= 1
    /\ Len(tables) = 2
    /\ \E k \in 1..Len(output) : IsFragment(output[k])
    /\ \E k \in 1..Len(output) : DocRank(output[k], tables[1]) = 1
    /\ \E k \in 1..Len(output) : DocRank(output[k], tables[1]) = 6
    /\ \E k \in 1..Len(output) : DocRank(output[k], tables[1]) = 7
    /\ \E k \in 1..Len(output) : DocRank(output[k], tables[2]) = 2

\* the schema exposes the three query fields of user and no other root
\* field
ExposesUserQueries ==
    /\ {schema.query[k].name : k \in 1..Len(schema.query)}
           = {"user", "user_by_pk", "user_aggregate"}
    /\ schema.mutation = <<>>
    /\ schema.subscription = <<>>

DefaultConfig ==
    /\ maxDepth = 1
    /\ disableOperationTypes = <<>>
    /\ ~disablePagination
    /\ ~enableSubfieldArgs
    /\ ~disableFragments
    /\ disableArgSuffixes = <<>>

Contains(text, part) ==
    \E i \in 1..(Len(text) - Len(part) + 1) :
        SubSeq(text, i, i + Len(part) - 1) = part

Operations(texts) == SelectSeq(texts, LAMBDA t : ~IsFragment(t))

\* the three documents of the end-to-end example, in order
UserQueryDocuments(ops) ==
    /\ Len(ops) = 3
    /\ SubSeq(ops[1], 1, 2) = <<"query", "GetUserPagination">>
    /\ ops[1][FirstBrace(ops[1]) + 1] = "user"
    /\ ops[1][FirstBrace(ops[1]) + 2] \in {"(", "{"}
    /\ Contains(ops[1], <<"user_aggregate", "(", "where", ":", "$where", ")",
                          "{", "aggregate", "{", "count", "}", "}">>)
    /\ SubSeq(ops[2], 1, 2) = <<"query", "GetUser">>
    /\ SubSeq(ops[3], 1, 2) = <<"query", "GetUserByPk">>

\* C16: for a schema exposing Query.user, Query.user_by_pk and
\* Query.user_aggregate, tables ["user"] and the default configuration,
\* generation succeeds, and the operations it returns are the three
\* documents GetUserPagination (a user selection and the block
\* user_aggregate(where: $where) { aggregate { count } }), GetUser and
\* GetUserByPk, in this order.
C16_EndToEndUserQueries ==
    (ExposesUserQueries /\ tables = <<User>> /\ DefaultConfig
        /\ ~NotValidated)
    => /\ pc \notin {"failed", "crashed"}
       /\ pc = "done" => UserQueryDocuments(Operations(output))

\* the same for the schemas that have all three root types
EndToEndWithAllRoots == RootFieldsRead => C16_EndToEndUserQueries

EndToEndWithAllRootsReached ==
    /\ pc = "done"
    /\ ExposesUserQueries
    /\ tables = <<User>>
    /\ DefaultConfig

----------------------------------------------------------------------------
(* Properties of the selection of root fields (Spec).                      *)

\* the root fields among the candidates that an operation was printed for
Selected(operationType, candidates) ==
    {queries[k].field :
        k \in {j \in 1..Len(queries) :
                  /\ queries[j].operationType = operationType
                  /\ queries[j].field \in candidates
                  /\ ~queries[j].pagination}}

\* the snake_case candidate when the root type has it, otherwise the
\* camelCase candidate when the root type has that
Preferred(fields, snakeName, camelName) ==
    IF HasField(fields, {snakeName}) THEN {snakeName}
    ELSE IF HasField(fields, {camelName}) THEN {camelName}
    ELSE {}

SelectsPreferred(operationType, snakeName, camelName) ==
    ~KindDisabled(operationType)
    => Selected(operationType, {snakeName, camelName})
           = Preferred(RootFields(operationType), snakeName, camelName)

QuerySelectsPreferred(table) ==
    /\ SelectsPreferred("query", Str(fieldName(table)), Str(camel(table)))
    /\ SelectsPreferred("query", Str(fieldByPkName(table)),
                        Str(camel(fieldByPkName(table))))

SubscriptionSelectsPreferred(table) ==
    /\ SelectsPreferred("subscription", Str(fieldName(table)),
                        Str(camel(table)))
    /\ SelectsPreferred("subscription", Str(fieldByPkName(table)),
                        Str(camel(fieldByPkName(table))))
    /\ SelectsPreferred("subscription", Str(streamFieldName(table)),
                        Str(camel(streamFieldName(table))))

MutationSelectsPreferred(table) ==
    \A name \in {insertFieldName(table), insertOneFieldName(table),
                 updateFieldName(table), updateByPkFieldName(table),
                 updateManyFieldName(table), deleteFieldName(table),
                 deleteByPkFieldName(table)} :
        SelectsPreferred("mutation", Str(name), Str(camel(name)))

\* the model user_role in either spelling selects the same fields
UserRoleSelection(table) ==
    Str(table) \in {"user_role", "userRole"}
    => /\ SelectsPreferred("query", "user_role", "userRole")
       /\ SelectsPreferred("query", "user_role_by_pk", "userRoleByPk")
       /\ SelectsPreferred("subscription", "user_role", "userRole")
       /\ SelectsPreferred("subscription", "user_role_stream",
                           "userRoleStream")
       /\ SelectsPreferred("mutation", "delete_user_role_by_pk",
                           "deleteUserRoleByPk")

\* C17: for each conventional field of a model, the root field an
\* operation is printed for is the snake_case candidate when the root type
\* has it and otherwise the camelCase candidate, whichever spelling the
\* model name is configured in (for the runs with a positive maxDepth that
\* complete).
C17_SnakeThenCamelSelected ==
    (pc = "done" /\ maxDepth >= 1)
    => \A i \in 1..Len(tables) :
           /\ QuerySelectsPreferred(tables[i])
           /\ SubscriptionSelectsPreferred(tables[i])
           /\ MutationSelectsPreferred(tables[i])
           /\ UserRoleSelection(tables[i])

\* the same for the fields of Query and Subscription alone
QueryAndSubscriptionSelectPreferred ==
    pc = "done"
    => \A i \in 1..Len(tables) :
           /\ QuerySelectsPreferred(tables[i])
           /\ SubscriptionSelectsPreferred(tables[i])
           /\ Str(tables[i]) \in {"user_role", "userRole"}
              => /\ SelectsPreferred("query", "user_role", "userRole")
                 /\ SelectsPreferred("query", "user_role_by_pk",
                                     "userRoleByPk")
                 /\ SelectsPreferred("subscription", "user_role", "userRole")
                 /\ SelectsPreferred("subscription", "user_role_stream",
                                     "userRoleStream")

QueryAndSubscriptionSelectPreferredReached ==
    /\ pc = "done"
    /\ maxDepth >= 1
    /\ Len(tables) = 1
    /\ Str(tables[1]) = "userRole"
    /\ Selected("query", {"user_role_by_pk", "userRoleByPk"})
           = {"user_role_by_pk"}
    /\ Selected("query", {"user_role", "userRole"}) = {"userRole"}

----------------------------------------------------------------------------
(* Properties of disableOperationTypes (Spec).                             *)

\* no returned text is an operation of a disabled kind
NoDisabledOperation ==
    pc = "done"
    => \A k \in 1..Len(output) : \A kind \in OperationTypes :
           KindDisabled(kind) => output[k][1] # kind

\* C18: each operation kind is toggled on its own.  No operation of a
\* disabled kind is returned, and the run does not depend on the root type
\* of a disabled kind: it does not end in an error for the lack of a root
\* type unless the schema lacks the root type of a kind that is not
\* disabled (for the runs with a positive maxDepth and a model).
C18_DisabledKindsIndependent ==
    /\ NoDisabledOperation
    /\ (pc = "crashed" /\ maxDepth >= 1 /\ tables # <<>>)
       => \E kind \in OperationTypes :
              ~KindDisabled(kind) /\ kind \notin schema.roots

\* a run with mutations disabled and operations of the other kinds returned
NoDisabledOperationReached ==
    /\ pc = "done"
    /\ maxDepth >= 1
    /\ KindDisabled("mutation")
    /\ schema.mutation # <<>>
    /\ \E k \in 1..Len(output) : output[k][1] = "query"
    /\ \E k \in 1..Len(output) : output[k][1] = "subscription"

----------------------------------------------------------------------------
(* Properties of the fields the printer leaves out (SpecPrint).            *)

\* the pieces a field name of the schemas is made of around a prefix or a
\* suffix
Affixes == {"", "_rank", "friend_"}

StartsWith(name, prefix) == \E rest \in Affixes : name = prefix \o rest

EndsWith(name, suffix) == \E rest \in Affixes : name = rest \o suffix

\* the field name is among the configured names, starts with a configured
\* prefix or ends with a configured suffix
Suppressed(name) ==
    \/ name \in restConfig.names
    \/ \E prefix \in restConfig.prefixes : StartsWith(name, prefix)
    \/ \E suffix \in restConfig.suffixes : EndsWith(name, suffix)

\* C19: a field whose name matches a configured name, starts with a
\* configured prefix or ends with a configured suffix is left out: every
\* call of the printer for such a field returns the empty result.
C19_SuppressedFieldsEmpty ==
    (returned # <<>> /\ Suppressed(returned[1].call.field.name))
    => returned[1].result = EmptyOutput

----------------------------------------------------------------------------
(* Properties of the fragment spread (SpecPrint).                          *)

\* a call of printOutputField for an object-typed field within the depth
\* budget whose type has a fragment in the registry
SpreadCase(c) ==
    /\ c.fn = "printOutputField"
    /\ c.field.type.w = <<>>
    /\ KindOf(c.field.type.n) = "OBJECT"
    /\ Len(c.parents) <= c.maxDepth - 1
    /\ \E i \in 1..Len(c.fragmentTypes) :
           c.fragmentTypes[i].key = c.field.type.n

\* the entry of the registry for the type of the call's field
SpreadOf(c) ==
    c.fragmentTypes[CHOOSE i \in 1..Len(c.fragmentTypes) :
                        c.fragmentTypes[i].key = c.field.type.n]

\* the result is the spread of the fragment under the field's name (when
\* not hidden), with the fragment's variables
OnlySpread(c, r) ==
    /\ ~r.err
    /\ r.query = (IF c.hideName THEN <<>> ELSE <<c.field.name>>)
                     \o <<"{", "...", SpreadOf(c).name, "}">>
    /\ r.args = SpreadOf(c).args
    /\ ~r.isScalar

\* no active call prints a field of the type of a call in the spread case
NoFieldVisited ==
    \A i \in 1..Len(ActiveCalls) : \A j \in (i + 1)..Len(ActiveCalls) :
        SpreadCase(ActiveCalls[i])
        => ActiveCalls[j].parents = ActiveCalls[i].parents

\* C20 as stated: a call of printOutputField for an object-typed field
\* within the depth budget whose type has a fragment returns only the
\* spread of the fragment, visits no field of the type, and returns
\* exactly the fragment's variables.
C20_FragmentSpreadOnly ==
    /\ NoFieldVisited
    /\ (returned # <<>> /\ SpreadCase(returned[1].call))
       => OnlySpread(returned[1].call, returned[1].result)

\* the field repeats no ancestor, and is not handed to
\* printOperationContent as a sub-field with arguments
ReachesObjectBranch(c) ==
    /\ ~\E i \in 1..Len(c.parents) :
           /\ c.parents[i].name = c.field.name
           /\ c.parents[i].type = c.field.type
    /\ c.parents = <<>> \/ c.field.args = <<>>

\* C20: a call of printOutputField for an object-typed field that repeats
\* no ancestor, is not a sub-field with arguments of its own, is within the
\* depth budget and whose type has a fragment in the registry returns only
\* the spread of the fragment, with exactly the fragment's variables; and
\* whether or not the field has arguments, no field of the type is
\* visited.
C20_FragmentSpreadWithoutOwnArgs ==
    /\ NoFieldVisited
    /\ (returned # <<>> /\ SpreadCase(returned[1].call)
           /\ ReachesObjectBranch(returned[1].call))
       => OnlySpread(returned[1].call, returned[1].result)

\* a field below the root returned the spread of a fragment that has
\* variables
C20_Witness ==
    /\ returned # <<>>
    /\ SpreadCase(returned[1].call)
    /\ ReachesObjectBranch(returned[1].call)
    /\ returned[1].call.parents # <<>>
    /\ returned[1].result.args # <<>>
    /\ OnlySpread(returned[1].call, returned[1].result)

----------------------------------------------------------------------------
(* Properties of the fragment registry (Spec).                             *)

\* every "..." of the text opens an inline fragment (... on), none a spread
NoSpread(text) ==
    \A i \in 1..Len(text) :
        text[i] = "..." => (i < Len(text) /\ text[i + 1] = "on")

\* C21: fragments never reference each other: the content of every
\* fragment of the registry has no fragment spread, also when the model's
\* type has a relation to another configured model or to itself.
C21_FragmentsWithoutSpreads ==
    \A i \in 1..Len(fragmentTypes) : NoSpread(fragmentTypes[i].content)

\* the fragments of user, which has a relation to itself, and of post,
\* which has a relation to user, both printed with the related type's
\* fields inline
C21_Witness ==
    /\ pc = "done"
    /\ maxDepth = 2
    /\ tables = <<User, Post>>
    /\ Len(fragmentTypes) = 2
    /\ schema.types["user"].fields[2].type = Named("user")
    /\ \E i \in 1..Len(fragmentTypes) :
           /\ fragmentTypes[i].key = "user"
           /\ Contains(fragmentTypes[i].content, <<"friend", "{", "id">>)
    /\ \E i \in 1..Len(fragmentTypes) :
           /\ fragmentTypes[i].key = "post"
           /\ Contains(fragmentTypes[i].content, <<"author", "{", "id">>)

\* the names of the first n models that are object types of the schema
ObjectModels(n) ==
    {Str(tables[i]) :
        i \in {j \in 1..n : /\ Str(tables[j]) \in DOMAIN schema.types
                            /\ schema.types[Str(tables[j])].kind = "OBJECT"}}

RegistryKeys == {fragmentTypes[i].key : i \in 1..Len(fragmentTypes)}

\* C22: when fragments are not disabled, the keys of the registry are the
\* configured model names that are object types of the schema: those of the
\* models gone through while the registry is built, all of them once it is
\* built, and a run only fails while the registry is built at a model that
\* is an object type.  When fragments are disabled the registry is empty
\* and the returned text has no fragment definition and no fragment spread.
C22_RegistryKeysAreObjectModels ==
    /\ Len(fragmentTypes) = Cardinality(RegistryKeys)
    /\ disableFragments
       => /\ fragmentTypes = <<>>
          /\ pc = "done"
             => \A k \in 1..Len(output) :
                    ~IsFragment(output[k]) /\ NoSpread(output[k])
    /\ (~disableFragments /\ pc = "fragments")
       => RegistryKeys = ObjectModels(ti - 1)
    /\ (~disableFragments /\ pc \in {"operations", "done", "crashed"})
       => RegistryKeys = ObjectModels(Len(tables))
    /\ (~disableFragments /\ pc = "failed")
       => \/ RegistryKeys = ObjectModels(Len(tables))
          \/ /\ RegistryKeys = ObjectModels(ti - 2)
             /\ Str(tables[ti - 1]) \in ObjectModels(ti - 1)

\* a completed run for the models user and media: media names a union and
\* has no entry
C22_Witness ==
    /\ pc = "done"
    /\ maxDepth >= 1
    /\ ~disableFragments
    /\ tables = <<User, Media>>
    /\ RegistryKeys = {"user"}
    /\ \E k \in 1..Len(output) : IsFragment(output[k])

----------------------------------------------------------------------------
(* Properties of the depth limit of mutations (SpecPrint).                 *)

\* the top-level call of the printer that is running or has just returned
RootCall ==
    IF stack # <<>> THEN stack[Len(stack)].call
    ELSE IF pending # <<>> THEN pending[1]
    ELSE returned[1].call

BothSpellings(names) == UNION {{Str(n), Str(camel(n))} : n \in names}

\* insert, update, update-many and delete of a model, in either spelling
BulkMutationNames(table) ==
    BothSpellings({insertFieldName(table), updateFieldName(table),
                   updateManyFieldName(table), deleteFieldName(table)})

\* insert-one, update-by-pk and delete-by-pk of a model
SingleRowMutationNames(table) ==
    BothSpellings({insertOneFieldName(table), updateByPkFieldName(table),
                   deleteByPkFieldName(table)})

IsMutation(c) ==
    IsOperation(c) /\ HasField(schema.mutation, {c.field.name})

\* C23: the operation of a mutation field is printed with the depth limit
\* maxDepth + 1 exactly when the field is a bulk mutation of a model
\* (insert, update, update-many, delete, in either spelling), and with the
\* configured maxDepth when it is insert-one, update-by-pk or delete-by-pk.
C23_BulkMutationsOneDeeper ==
    IsMutation(RootCall)
    => /\ RootCall.maxDepth = maxDepth + 1
          <=> \E i \in 1..Len(tables) :
                  RootCall.field.name \in BulkMutationNames(tables[i])
       /\ RootCall.maxDepth = maxDepth
          <=> \E i \in 1..Len(tables) :
                  RootCall.field.name \in SingleRowMutationNames(tables[i])

\* insert_user printed with maxDepth 1: the fields of the returned rows,
\* two levels below the mutation field, are printed
C23_Witness ==
    /\ returned # <<>>
    /\ stack = <<>>
    /\ maxDepth = 1
    /\ IsMutation(returned[1].call)
    /\ returned[1].call.field.name = "insert_user"
    /\ returned[1].call.maxDepth = 2
    /\ Contains(returned[1].result.query, <<"returning", "{", "id">>)

----------------------------------------------------------------------------
(* Properties of the arguments of subscriptions (Spec).                    *)

IsNonNull(type) == type.w # <<>> /\ Head(type.w) = "NonNull"

\* the document declares the argument as a variable and passes it
DeclaresAndPasses(d, arg) ==
    /\ Contains(d.text, <<"$" \o arg.name, ":", toString(arg.type)>>)
    /\ Contains(d.text, <<arg.name, ":", "$" \o arg.name>>)

\* the document has the argument neither in its header nor in its body
LeavesOut(d, arg) ==
    /\ ~Contains(d.text, <<"$" \o arg.name, ":">>)
    /\ ~Contains(d.text, <<arg.name, ":", "$" \o arg.name>>)

\* a subscription document that prints its root field keeps every argument
KeepsEveryArgument(d) ==
    \A f \in FieldsNamed(schema.subscription, {d.field}) :
        \A k \in 1..Len(f.args) : DeclaresAndPasses(d, f.args[k])

\* it keeps the arguments that are non-nullable or not of a disabled type
\* and leaves out the others
KeepsEnabledArguments(d, table) ==
    \A f \in FieldsNamed(schema.subscription, {d.field}) :
        \A k \in 1..Len(f.args) :
            IF IsNonNull(f.args[k].type)
                   \/ f.args[k].type.n \notin DisabledNames(table)
            THEN DeclaresAndPasses(d, f.args[k])
            ELSE LeavesOut(d, f.args[k])

\* no field of a type of the schema has a non-nullable argument
NoRequiredSubfieldArgument ==
    \A n \in DOMAIN schema.types :
        \A k \in 1..Len(schema.types[n].fields) :
            \A j \in 1..Len(schema.types[n].fields[k].args) :
                ~IsNonNull(schema.types[n].fields[k].args[j].type)

\* the fragment of the model at which the run failed is in the registry
FailedInOperations ==
    disableFragments
        \/ Str(tables[ti - 1]) \in RegistryKeys
        \/ Str(tables[ti - 1]) \notin ObjectModels(ti - 1)

\* C24: the plain get subscription is printed with an empty disabled set:
\* its document keeps every top-level argument of the field, whatever
\* disableArgSuffixes names, and a non-nullable argument of a disabled type
\* on it does not fail the run; the get-by-pk and stream subscriptions are
\* printed with the model's disabled set and leave out their nullable
\* arguments of a disabled type.
C24_GetSubscriptionKeepsArguments ==
    /\ \A k \in 1..Len(queries) : \A i \in 1..Len(tables) :
           (queries[k].operationType = "subscription"
               /\ PrintsField(queries[k]))
           => /\ queries[k].field \in GetNames(tables[i])
                 => KeepsEveryArgument(queries[k])
              /\ queries[k].field
                     \in ByPkNames(tables[i]) \cup StreamNames(tables[i])
                 => KeepsEnabledArguments(queries[k], tables[i])
    /\ (pc = "failed" /\ FailedInOperations /\ NoRequiredSubfieldArgument
           /\ Produces(tables[ti - 1]))
       => \E f \in FilteredFields(tables[ti - 1]) :
              RequiresDisabled(f, tables[ti - 1])

\* a completed run with the suffix bool_exp disabled: the get subscription
\* of user passes where, its get-by-pk and stream subscriptions do not
C24_Witness ==
    /\ pc = "done"
    /\ maxDepth >= 1
    /\ disableArgSuffixes = <<BoolExp>>
    /\ \E k \in 1..Len(queries) :
           /\ queries[k].operationType = "subscription"
           /\ queries[k].field = "user"
           /\ Contains(queries[k].text, <<"where", ":", "$where">>)
    /\ \E k \in 1..Len(queries) :
           /\ queries[k].operationType = "subscription"
           /\ queries[k].field = "user_by_pk"
           /\ PrintsField(queries[k])
           /\ ~Contains(queries[k].text, <<"where", ":", "$where">>)
    /\ \E k \in 1..Len(queries) :
           /\ queries[k].operationType = "subscription"
           /\ queries[k].field = "user_stream"
           /\ PrintsField(queries[k])
           /\ ~Contains(queries[k].text, <<"where", ":", "$where">>)

\* a completed run whose get subscription has a non-nullable argument of a
\* disabled type
RequiredDisabledGetSubscriptionReached ==
    /\ pc = "done"
    /\ maxDepth >= 1
    /\ disableArgSuffixes = <<BoolExp>>
    /\ \E f \in FieldsNamed(schema.subscription, {"user"}) :
           RequiresDisabled(f, User)
    /\ \E k \in 1..Len(queries) :
           /\ queries[k].operationType = "subscription"
           /\ queries[k].field = "user"
           /\ Contains(queries[k].text, <<"where", ":", "$where">>)

----------------------------------------------------------------------------
(* Properties of a field whose content is elided.                          *)

\* printOperationContent returns nothing for a field whose selection is
\* empty and which is no scalar leaf (SpecPrint)
ElidedContentEmpty ==
    (/\ returned # <<>>
     /\ returned[1].call.fn = "printOperationContent"
     /\ ~returned[1].result.err
     /\ Eval(SubCalls(returned[1].call)[1]).query = <<>>
     /\ ~Eval(SubCalls(returned[1].call)[1]).isScalar)
    => returned[1].result = EmptyOutput

ElidedContentEmptyReached ==
    /\ returned # <<>>
    /\ returned[1].call.fn = "printOperationContent"
    /\ returned[1].call.maxDepth >= 1
    /\ returned[1].call.field.args # <<>>
    /\ Eval(SubCalls(returned[1].call)[1]) = EmptyOutput
    /\ returned[1].result = EmptyOutput

\* the requests of the models whose operations are printed
RequestsMade ==
    UNION {{qs[k] : k \in 1..Len(qs)} :
              qs \in {ModelRequests(tables[i], maxDepth) :
                         i \in 1..Len(tables)}}

\* the content of the request's root field is empty
ContentElided(q) ==
    \E r \in {Eval(RequestCall(q, fragmentTypes))} :
        ~r.err /\ r.query = <<>> /\ r.args = <<>>

\* a document was emitted for the request's root field
Emitted(q) ==
    \E k \in 1..Len(queries) :
        /\ queries[k].operationType = q.operationType
        /\ queries[k].field = q.r.field.name
        /\ ~queries[k].pagination

\* C25: a field whose printed body is empty and which is no scalar leaf
\* contributes nothing, and no operation document is emitted for a root
\* field whose entire content was elided (in a completed run with a
\* positive maxDepth).
C25_ElidedRootFieldNotEmitted ==
    (pc = "done" /\ maxDepth >= 1)
    => \A q \in RequestsMade :
           (q.aggregate = <<>> /\ ContentElided(q)) => ~Emitted(q)

----------------------------------------------------------------------------
(* Properties of union and interface fields (SpecPrint).                   *)

\* the call gets past the ancestor and depth guard and is not handed to
\* printOperationContent
PastGuards(c) ==
    /\ c.fn = "printOutputField"
    /\ ~\E i \in 1..Len(c.parents) :
           /\ c.parents[i].name = c.field.name
           /\ c.parents[i].type = c.field.type
    /\ Len(c.parents) <= c.maxDepth
    /\ c.parents = <<>> \/ c.field.args = <<>>

UnionCase(c) ==
    /\ PastGuards(c)
    /\ c.field.type.w = <<>>
    /\ KindOf(c.field.type.n) = "UNION"

\* the call for a member type, with the chain extended by the union field
MemberCall(c, member) ==
    [fn |-> "printOutputField",
     field |-> [name |-> member, type |-> Named(member), args |-> <<>>],
     parents |-> Append(c.parents,
                        [name |-> c.field.name, type |-> c.field.type]),
     hideName |-> FALSE, isSubfield |-> FALSE, maxDepth |-> c.maxDepth,
     fragmentTypes |-> c.fragmentTypes, disabledArgs |-> c.disabledArgs]

Members(c) == schema.types[c.field.type.n].members

\* ... on <MemberType> { selection }
InlineFragment(c, member) ==
    CHOOSE t \in {<<"...", "on">> \o r.query :
                     r \in {Eval(MemberCall(c, member))}} : TRUE

WellFormedInlineFragment(text, member) ==
    Len(text) >= 6 /\ SubSeq(text, 1, 4) = <<"...", "on", member, "{">>

\* __typename, then the inline fragments of the members in declared order
UnionSelection(c) ==
    <<"{", "__typename">>
        \o Flatten([i \in 1..Len(Members(c)) |->
                       InlineFragment(c, Members(c)[i])])
        \o <<"}">>

\* the calls a union call makes are those for its members
MembersCalled ==
    \A i \in 1..(Len(ActiveCalls) - 1) :
        UnionCase(ActiveCalls[i])
        => \E k \in 1..Len(Members(ActiveCalls[i])) :
               ActiveCalls[i + 1]
                   = MemberCall(ActiveCalls[i], Members(ActiveCalls[i])[k])

\* C26: for a union-typed field the printer emits __typename first and
\* then one inline fragment per member type, in declared order, each of
\* the form ... on <MemberType> followed by the member's selection; each
\* member is printed with the chain extended by the union field (for
\* calls with a positive depth limit).
C26_UnionInlineFragments ==
    /\ MembersCalled
    /\ (returned # <<>> /\ UnionCase(returned[1].call)
           /\ ~returned[1].result.err
           /\ returned[1].call.maxDepth >= 1)
       => /\ returned[1].result.query = UnionSelection(returned[1].call)
          /\ \A k \in 1..Len(Members(returned[1].call)) :
                 WellFormedInlineFragment(
                     InlineFragment(returned[1].call,
                                    Members(returned[1].call)[k]),
                     Members(returned[1].call)[k])

\* the same without the form of the inline fragments
UnionSelectionPrinted ==
    /\ MembersCalled
    /\ (returned # <<>> /\ UnionCase(returned[1].call)
           /\ ~returned[1].result.err)
       => returned[1].result.query = UnionSelection(returned[1].call)

\* a union field at the root of an operation with both members printed
UnionSelectionPrintedReached ==
    /\ returned # <<>>
    /\ UnionCase(returned[1].call)
    /\ returned[1].call.parents = <<>>
    /\ returned[1].result.query = UnionSelection(returned[1].call)
    /\ \A k \in 1..Len(Members(returned[1].call)) :
           WellFormedInlineFragment(
               InlineFragment(returned[1].call,
                              Members(returned[1].call)[k]),
               Members(returned[1].call)[k])

InterfaceCase(c) ==
    /\ PastGuards(c)
    /\ c.field.type.w = <<>>
    /\ KindOf(c.field.type.n) = "INTERFACE"

Declared(c) == schema.types[c.field.type.n].fields

\* the call for a declared field, with the chain extended by that field
ChildCall(c, f) ==
    [fn |-> "printOutputField", field |-> f,
     parents |-> Append(c.parents, [name |-> f.name, type |-> f.type]),
     hideName |-> FALSE, isSubfield |-> FALSE, maxDepth |-> c.maxDepth,
     fragmentTypes |-> c.fragmentTypes, disabledArgs |-> c.disabledArgs]

ChildrenCalled ==
    \A i \in 1..(Len(ActiveCalls) - 1) :
        InterfaceCase(ActiveCalls[i])
        => \E k \in 1..Len(Declared(ActiveCalls[i])) :
               ActiveCalls[i + 1]
                   = ChildCall(ActiveCalls[i], Declared(ActiveCalls[i])[k])

\* the declared fields of a scalar type
ScalarLeaves(c) ==
    SelectSeq(Declared(c), LAMBDA f : f.type.n \notin DOMAIN schema.types)

\* the positions of the fields in a text, when all are in it and in
\* declared order
PrintedInOrder(text, fs) ==
    \E pos \in [1..Len(fs) -> 1..Len(text)] :
        /\ \A k \in 1..Len(fs) : text[pos[k]] = fs[k].name
        /\ \A k \in 1..(Len(fs) - 1) : pos[k] < pos[k + 1]

\* C27: for an interface-typed field the printer emits __typename and then
\* each of the interface's own declared fields, in declared order, as a
\* direct child of the selection; each child is visited with the chain
\* extended by that child itself (for the declared fields of a scalar
\* type of an interface field whose children are within the depth limit).
C27_InterfaceFieldsPrinted ==
    /\ ChildrenCalled
    /\ (returned # <<>> /\ InterfaceCase(returned[1].call)
           /\ ~returned[1].result.err
           /\ Len(returned[1].call.parents) < returned[1].call.maxDepth)
       => /\ SubSeq(returned[1].result.query, 1, 2) = <<"{", "__typename">>
          /\ PrintedInOrder(returned[1].result.query,
                            ScalarLeaves(returned[1].call))

\* what the interface branch returns: __typename alone
InterfaceTypenameOnly ==
    /\ ChildrenCalled
    /\ (returned # <<>> /\ InterfaceCase(returned[1].call)
           /\ ~returned[1].result.err)
       => returned[1].result.query = <<"{", "__typename", "}">>

InterfaceTypenameOnlyReached ==
    /\ returned # <<>>
    /\ InterfaceCase(returned[1].call)
    /\ Len(returned[1].call.parents) < returned[1].call.maxDepth
    /\ returned[1].result.query = <<"{", "__typename", "}">>

----------------------------------------------------------------------------
(* Properties of List and NonNull wrappers (SpecPrint).                    *)

\* the call for the same field with the wrappers of its type taken off
Unwrapped(c) == [c EXCEPT !.field.type = Named(c.field.type.n)]

\* C28: List and NonNull wrappers are transparent: a call of
\* printOutputField for a field of a wrapped type returns what the call
\* for the same field of the unwrapped type returns, with the same chain
\* and depth limit.
C28_WrappersTransparent ==
    (/\ returned # <<>>
     /\ returned[1].call.fn = "printOutputField"
     /\ returned[1].call.field.type.w # <<>>)
    => returned[1].result = Eval(Unwrapped(returned[1].call))

\* some entry of the chain has a wrapped type
WrappedAncestor(c) == \E i \in 1..Len(c.parents) : c.parents[i].type.w # <<>>

\* the same for the calls that do not throw and whose chain holds fields of
\* unwrapped types only
WrappersTransparentOtherwise ==
    (/\ returned # <<>>
     /\ returned[1].call.fn = "printOutputField"
     /\ returned[1].call.field.type.w # <<>>
     /\ ~returned[1].result.err
     /\ ~WrappedAncestor(returned[1].call))
    => returned[1].result = Eval(Unwrapped(returned[1].call))

WrappersTransparentOtherwiseReached ==
    /\ returned # <<>>
    /\ returned[1].call.fn = "printOutputField"
    /\ Len(returned[1].call.field.type.w) = 3
    /\ returned[1].call.parents # <<>>
    /\ returned[1].result.query # <<>>
    /\ returned[1].result = Eval(Unwrapped(returned[1].call))

----------------------------------------------------------------------------
(* Properties of the variables of an operation (Spec).                     *)

\* the variables declared in the header of a document: $name : Type
HeaderVariables(text) ==
    {text[i] : i \in {j \in 1..(FirstBrace(text) - 2) : text[j + 1] = ":"}}

\* the variables passed to arguments from a position on: name : $variable
References(text, from) ==
    {text[i + 1] : i \in {j \in from..(Len(text) - 1) : text[j] = ":"}}

\* the names of the fragments that a text spreads
Spreads(text) ==
    {text[i + 1] :
        i \in {j \in 1..(Len(text) - 1) :
                  text[j] = "..." /\ text[j + 1] # "on"}}

\* the variables referenced in the bodies of the fragments a text spreads
SpreadReferences(text) ==
    UNION {References(fragmentTypes[i].content, 1) :
              i \in {j \in 1..Len(fragmentTypes) :
                        fragmentTypes[j].name \in Spreads(text)}}

\* C29: in every operation emitted by printOperation, the variables
\* declared in the header are those referenced in the body of the operation
\* and in the bodies of the fragments it spreads: none is used without
\* being declared and none is declared without being used.
C29_DeclaredVariablesAreUsed ==
    \A k \in 1..Len(queries) :
        ~queries[k].pagination
        => HeaderVariables(queries[k].text)
               = References(queries[k].text, FirstBrace(queries[k].text))
                     \cup SpreadReferences(queries[k].text)

\* an operation with a variable of its own and one of a fragment it spreads
C29_Witness ==
    /\ pc = "done"
    /\ \E k \in 1..Len(queries) :
           /\ ~queries[k].pagination
           /\ Spreads(queries[k].text) # {}
           /\ References(queries[k].text, FirstBrace(queries[k].text)) # {}
           /\ SpreadReferences(queries[k].text) # {}
           /\ ~(SpreadReferences(queries[k].text)
                    \subseteq References(queries[k].text,
                                         FirstBrace(queries[k].text)))

----------------------------------------------------------------------------
(* Properties of the names of fields with a selection (SpecPrint).         *)

\* the text is a braced selection
Braced(text) == text # <<>> /\ "{" \in Range(text)

\* C30: every field below the top-level field of an operation that
\* contributes a non-empty braced selection is printed with its own name in
\* front of the braces, whatever the kind of its type and whether or not it
\* declares arguments; only a call made with the name hidden omits it.
C30_SelectionsCarryFieldName ==
    (/\ returned # <<>>
     /\ returned[1].call.parents # <<>>
     /\ ~returned[1].call.hideName
     /\ ~returned[1].result.err
     /\ Braced(returned[1].result.query))
    => /\ returned[1].result.query[1] = returned[1].call.field.name
       /\ returned[1].result.query[2] \in {"{", "("}

\* the same for the fields of an object type, and for every field with
\* arguments
ObjectSelectionsCarryFieldName ==
    (/\ returned # <<>>
     /\ returned[1].call.parents # <<>>
     /\ ~returned[1].call.hideName
     /\ ~returned[1].result.err
     /\ Braced(returned[1].result.query)
     /\ \/ KindOf(returned[1].call.field.type.n) = "OBJECT"
        \/ returned[1].call.field.args # <<>>)
    => /\ returned[1].result.query[1] = returned[1].call.field.name
       /\ returned[1].result.query[2] \in {"{", "("}

ObjectSelectionsCarryFieldNameReached ==
    /\ returned # <<>>
    /\ returned[1].call.parents # <<>>
    /\ ~returned[1].call.hideName
    /\ Braced(returned[1].result.query)
    /\ KindOf(returned[1].call.field.type.n) = "UNION"
    /\ returned[1].call.field.args # <<>>
    /\ returned[1].result.query[1] = returned[1].call.field.name

====
